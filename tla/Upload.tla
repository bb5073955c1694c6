------------------------------- MODULE Upload -------------------------------
(***************************************************************************)
(* Uploading one file (src/upload): the preflight, the single request of   *)
(* the built-in services and of .sxcu uploaders, and zipline's chunked     *)
(* upload with its retries in smaller chunks.  Sizes count the smallest    *)
(* chunk (1 MiB).  The server answers as it likes: a url, an answer        *)
(* without one, "too large" (413), another status, or no answer at all,    *)
(* which does not tell whether it took what it was sent.                   *)
(***************************************************************************)
EXTENDS Naturals, Sequences, SequencesExt

CONSTANTS MaxSize, ChunkSizes       \* of the file (a bound); services.zipline.chunk_size
ASSUME UploadAssumption == MaxSize \in Nat \ {0} /\ ChunkSizes \subseteq Nat \ {0}

VARIABLES
  up,      \* the upload: pc, the service and its settings, and the chunk loop's variables
  upTaken  \* the server: the pieces it took, in the order they came

upVars == <<up, upTaken>>

Services == {"zipline", "nest", "guns", "sxcu", "unknown"}
Answers  == {"url", "nothing", "tooLarge", "error", "lost"}
BuiltIn(service) == service \in {"zipline", "nest", "guns"}

Idle == [pc |-> "idle", service |-> "nest", auth |-> FALSE, domain |-> FALSE, chunked |-> FALSE,
         body |-> TRUE, size |-> 0, chunk |-> 0, alloc |-> 0, start |-> 0, block |-> 0,
         id |-> FALSE, result |-> "none", told |-> "none"]

UpGoes(from, to) == up.pc = from /\ up' = [up EXCEPT !.pc = to]
\* r->curl_code and r->http_code decide what upload_friendly_error says.
UpFails(from, why) == /\ up.pc = from
                      /\ up' = [Idle EXCEPT !.pc = "end", !.size = up.size, !.service = up.service,
                                            !.result = "failed", !.told = why]

-----------------------------------------------------------------------------
\* What the user, the config and the .sxcu directory hold.
UploadBegins(service, auth, domain, chunked, body, size, alloc) ==
  /\ up.pc = "idle"
  /\ up' = [Idle EXCEPT !.pc = "preflight", !.service = service, !.auth = auth, !.domain = domain,
                        !.chunked = chunked, !.body = body, !.size = size, !.alloc = alloc]
  /\ UNCHANGED upTaken

\* upload_preflight: a service that is known, with a token and, for zipline, a
\* domain; an .sxcu uploader brings its own.
Preflight ==
  /\ \/ /\ up.service = "sxcu" \/ (BuiltIn(up.service) /\ up.auth
                                   /\ (up.service = "zipline" => up.domain))
        /\ UpGoes("preflight", "perform")
     \/ /\ up.service = "unknown" \/ (BuiltIn(up.service) /\ ~up.auth)
           \/ (up.service = "zipline" /\ ~up.domain)
        /\ UpFails("preflight", "preflight")
  /\ UNCHANGED upTaken

\* upload_perform.
Dispatch ==
  /\ up.pc = "perform"
  /\ up' = [up EXCEPT !.pc = CASE up.service = "sxcu" -> "sxcu"
                                [] up.service = "zipline" /\ up.chunked -> "open"
                                [] OTHER -> "single"]
  /\ UNCHANGED upTaken

Took(start, size, last) == Append(upTaken, [start |-> start, size |-> size, last |-> last])

\* The whole file in one request; an answer that got lost may have been taken.
SingleRequest(answer) ==
  /\ \/ answer = "url" /\ UpGoes("single", "uploaded")
     \/ answer = "tooLarge" /\ up.service = "zipline" /\ UpGoes("single", "open")
     \/ answer = "tooLarge" /\ up.service # "zipline" /\ UpFails("single", "http")
     \/ answer \in {"nothing", "error"} /\ UpFails("single", "http")
     \/ answer = "lost" /\ UpFails("single", "transport")
  /\ \/ answer \in {"url", "nothing", "lost"} /\ upTaken' = Took(0, up.size, TRUE)
     \/ answer \in {"tooLarge", "error", "lost"} /\ UNCHANGED upTaken

-----------------------------------------------------------------------------
(* sxcu_upload.                                                            *)

\* A body with GET is refused before anything is sent.
SxcuRequest(answer) ==
  /\ \/ up.body /\ answer = "url" /\ UpGoes("sxcu", "uploaded")
     \/ up.body /\ answer \in {"nothing", "tooLarge", "error"} /\ UpFails("sxcu", "http")
     \/ up.body /\ answer = "lost" /\ UpFails("sxcu", "transport")
     \/ ~up.body /\ UpFails("sxcu", "http")
  /\ IF up.body /\ answer \in {"url", "nothing"} THEN upTaken' = Took(0, up.size, TRUE)
                                                 ELSE UNCHANGED upTaken

-----------------------------------------------------------------------------
(* zipline_upload_partial.                                                 *)

\* An empty file cannot be chunked.
PartialOpens ==
  /\ \/ up.size > 0 /\ up.pc = "open"
        /\ up' = [up EXCEPT !.pc = "read", !.chunk = up.alloc, !.start = 0, !.block = 0, !.id = FALSE]
     \/ up.size = 0 /\ UpFails("open", "http")
  /\ UNCHANGED upTaken

\* off < total: the next buffer of the file.
PartialReads ==
  /\ up.pc = "read" /\ up.start = up.block
  /\ up' = IF up.start < up.size
           THEN [up EXCEPT !.pc = "send", !.block = Min({up.start + up.alloc, up.size})]
           ELSE [up EXCEPT !.pc = "uploaded"]
  /\ UNCHANGED upTaken

SendSize == Min({up.chunk, up.block - up.start})
IsLast   == up.start + SendSize >= up.size

\* Slip: the whole buffer counts as sent, whatever size the chunk has by now.
SentUpToBuffer == up.block
SentUpTo == up.start + SendSize

\* Rejected as too large: the same bytes again in chunks of half the size.
PartialRetries ==
  /\ up.pc = "send" /\ up.chunk > 1
  /\ up' = [up EXCEPT !.chunk = @ \div 2]
  /\ UNCHANGED upTaken

\* Taken: the answer must be JSON, the first must name the upload, the last one
\* its url.
PartialTaken(answer) ==
  /\ up.pc = "send"
  /\ upTaken' = Took(up.start, SendSize, IsLast)
  /\ \/ /\ answer = "url"
        /\ up' = [up EXCEPT !.start = SentUpTo, !.id = TRUE,
                            !.pc = IF SentUpTo = up.block THEN "read" ELSE "send"]
     \/ answer = "nothing" /\ UpFails("send", "http")
     \/ answer = "lost" /\ UpFails("send", "transport")

\* Not taken: another status, no connection, 413 for the smallest chunk.
PartialRefused(answer) ==
  /\ \/ answer = "error" /\ UpFails("send", "http")
     \/ answer = "tooLarge" /\ up.chunk = 1 /\ UpFails("send", "http")
     \/ answer = "lost" /\ UpFails("send", "transport")
  /\ UNCHANGED upTaken

-----------------------------------------------------------------------------
\* The url goes to the clipboard and to stdout (gapp_run_upload, publish.c).
UploadReports ==
  /\ up.pc = "uploaded"
  /\ up' = [Idle EXCEPT !.pc = "end", !.size = up.size, !.service = up.service, !.result = "url"]
  /\ UNCHANGED upTaken

UploadInit == up = Idle /\ upTaken = <<>>

UploadNext ==
  \/ \E service \in Services, auth, domain, chunked, body \in BOOLEAN,
        size \in 0 .. MaxSize, alloc \in ChunkSizes :
       UploadBegins(service, auth, domain, chunked, body, size, alloc)
  \/ Preflight \/ Dispatch
  \/ \E answer \in Answers : \/ SingleRequest(answer) \/ SxcuRequest(answer)
                             \/ PartialTaken(answer) \/ PartialRefused(answer)
  \/ PartialOpens \/ PartialReads \/ PartialRetries \/ UploadReports

-----------------------------------------------------------------------------
UploadTypeOK ==
  /\ up.service \in Services /\ up.size \in 0 .. MaxSize
  /\ up.start <= up.block /\ up.block <= up.size
  /\ up.result \in {"none", "url", "failed"} /\ (up.result = "failed" <=> up.told # "none")

\* A url is reported only for a file that the server has: its pieces follow each
\* other from the first byte to the last, each byte once, and only the piece
\* that ends the file is marked as the last (zipline.c:117-204), however often
\* chunks were rejected and halved on the way.  Nothing is sent before the
\* preflight has passed.
UploadedIsWhole ==
  /\ \A i \in 1 .. Len(upTaken) :
       LET piece == upTaken[i]
           end == piece.start + piece.size
       IN /\ piece.start = (IF i = 1 THEN 0 ELSE upTaken[i - 1].start + upTaken[i - 1].size)
          /\ piece.last <=> end = up.size
  /\ up.result = "url" => upTaken # <<>> /\ Last(upTaken).last
  /\ up.pc \in {"idle", "preflight"} \/ up.told = "preflight" => upTaken = <<>>

=============================================================================
