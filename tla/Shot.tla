-------------------------------- MODULE Shot --------------------------------
(***************************************************************************)
(* Taking a picture and doing something with it (app/source.c,             *)
(* app/actions.c, app/ocr.c, main.c): which file a capture is written to,  *)
(* who removes it, and what a failure, a cancelled selection or a signal   *)
(* leaves behind.                                                          *)
(*                                                                         *)
(* All invocations use one file name (a literal template, or the same      *)
(* second), so they meet: in the pictures it gets a number, among the      *)
(* temporary files it does not.  The first number is taken by an earlier   *)
(* picture; Mine is another picture of the user's.                         *)
(***************************************************************************)
EXTENDS Naturals, FiniteSets, FiniteSetsExt

CONSTANTS Shooters, Pictures     \* invocations; how many numbers there are (a bound)
ASSUME ShotAssumption == /\ IsFiniteSet(Shooters) /\ Shooters \cap {"user", "nobody"} = {}
                         /\ Pictures \in Nat /\ Pictures > Cardinality(Shooters)

VARIABLES
  shot,      \* per invocation: pc, what was asked for, path, is_temp, g_tmpfile_path
  disk,      \* per place: who wrote the file there and whether it is whole
  previews,  \* invocations whose preview-<pid>.png is there
  clash      \* history: invocations that met at one path

shotVars == <<shot, disk, previews, clash>>

Numbers == 0 .. Pictures - 1                \* <name>, <name>-1, ...
Temp    == Pictures
Mine    == Pictures + 1
NoPath  == Pictures + 2
Places  == Numbers \cup {Temp, Mine}
Absent  == [by |-> "nobody", whole |-> FALSE]
Whole(who) == [by |-> who, whole |-> TRUE]

NewShot == [pc |-> "idle", action |-> "copy", from |-> NoPath, save |-> FALSE,
            path |-> NoPath, temp |-> FALSE, reg |-> NoPath, result |-> "none"]

There(p)   == disk[p] # Absent
Active(s)  == shot[s].pc \notin {"idle", "gone"}
At(s, pc)  == shot[s].pc = pc
Ends(s, result) ==
  LET c == shot[s] IN
  shot' = [shot EXCEPT ![s] = [NewShot EXCEPT !.pc = "gone", !.result = result, !.path = c.path,
             !.from = c.from, !.action = IF c.action \in {"pin", "ocr"} THEN c.action ELSE "copy"]]
Removed(p) == [disk EXCEPT ![p] = Absent]

\* Who else is using p, or has left a file there.
Meeting(s, p) == {t \in Shooters \ {s} : (Active(t) /\ p \in {shot[t].path, shot[t].from}) \/ disk[p].by = t}
Meets(s, p)   == clash' = IF Meeting(s, p) = {} THEN clash ELSE clash \cup {s} \cup Meeting(s, p)

-----------------------------------------------------------------------------
(* gapp_acquire_source.                                                    *)

\* A file that is not edited is used where it is; --output of one just prints it.
ShotBegins(s, action, from, edit, save) ==
  /\ At(s, "idle") /\ (from = Temp => There(Temp))
  /\ LET asked == [NewShot EXCEPT !.action = action, !.from = IF from = Temp THEN Temp ELSE NoPath]
     IN shot' = [shot EXCEPT ![s] =
          IF from = NoPath \/ edit THEN [asked EXCEPT !.pc = "name", !.save = save]
                                   ELSE [asked EXCEPT !.pc = "act", !.path = from]]
  /\ IF from = NoPath THEN UNCHANGED clash ELSE Meets(s, from)
  /\ UNCHANGED <<disk, previews>>

\* upload_preflight, no tesseract, no compositor, no monitor, an unknown format.
ShotRefused(s) == /\ At(s, "name") /\ Ends(s, "failed") /\ UNCHANGED <<disk, previews, clash>>

\* build_capture_path decides what is saved ...
Saves(s) == shot[s].action = "save" \/ (shot[s].action # "ocr" /\ shot[s].save)

\* Slip: a picture that is there does not count.
FirstNumber == 0

\* ... and paths_build_output the first free number; a temporary file takes no
\* number.
FreeNumber == Min({n \in Numbers : ~There(n)})

ShotNames(s) ==
  LET p == IF Saves(s) THEN FreeNumber ELSE Temp IN
  /\ At(s, "name")
  /\ shot' = [shot EXCEPT ![s].pc = "select", ![s].path = p, ![s].temp = ~Saves(s),
                          ![s].save = FALSE, ![s].from = IF @ = p THEN p ELSE NoPath,
                          ![s].reg = IF Saves(s) THEN NoPath ELSE p]
  /\ Meets(s, p)
  /\ UNCHANGED <<disk, previews>>

\* grabit_freeze_capture and gapp_edit_image_file: the screen is frozen and the
\* user selects, for as long as that takes.  Then the file is opened ...
ShotOpens(s) ==
  /\ At(s, "select")
  /\ shot' = [shot EXCEPT ![s].pc = "write"]
  /\ disk' = [disk EXCEPT ![shot[s].path] = [by |-> s, whole |-> FALSE]]
  /\ UNCHANGED <<previews, clash>>

\* ... and written in place, and the preview with it if it is enabled
\* (grabit_save_surface).  If somebody removed it or opened it anew meanwhile,
\* what is written does not show at the path.
ShotWritten(s, preview) ==
  /\ At(s, "write")
  /\ shot' = [shot EXCEPT ![s].pc = "act"]
  /\ disk' = IF disk[shot[s].path].by = s THEN [disk EXCEPT ![shot[s].path].whole = TRUE] ELSE disk
  /\ previews' = IF preview THEN previews \cup {s} ELSE previews
  /\ UNCHANGED clash

\* Cancelled, or a step failed: discard_capture removes whatever is at the path,
\* unless that is the file that was to be edited.
ShotDiscards(s) ==
  /\ shot[s].pc \in {"select", "write"}
  /\ disk' = IF shot[s].path = shot[s].from THEN disk ELSE Removed(shot[s].path)
  /\ Ends(s, "failed")
  /\ UNCHANGED <<previews, clash>>

-----------------------------------------------------------------------------
(* gapp_run_upload, gapp_run_copy, gapp_run_pin, gapp_run_output.          *)

Acts(s, actions) == At(s, "act") /\ shot[s].action \in actions
ShotReports(s, ok) == [shot EXCEPT ![s].pc = "release", ![s].result = IF ok THEN "ok" ELSE "failed",
                                   ![s].action = IF @ = "pin" THEN @ ELSE "copy"]

\* gapp_maybe_show_preview, after a success: the card has loaded the file when
\* pin_spawn_show returns.
Previewed(s) == previews' = previews \ {s}

\* Slip: it says that the capture is kept, and releases it.
UploadFailsReleases(s) ==
  /\ Acts(s, {"upload"})
  /\ shot' = [ShotReports(s, FALSE) EXCEPT ![s].result = IF shot[s].temp THEN "kept" ELSE "failed"]
  /\ UNCHANGED <<disk, previews, clash>>

\* A temporary file is kept for a retry.
UploadFails(s) ==
  /\ Acts(s, {"upload"})
  /\ shot' = [ShotReports(s, FALSE) EXCEPT
                ![s].reg = IF shot[s].temp THEN NoPath ELSE @, ![s].temp = FALSE,
                ![s].result = IF shot[s].temp THEN "kept" ELSE "failed"]
  /\ UNCHANGED <<disk, previews, clash>>

ShotSucceeds(s) ==
  /\ Acts(s, {"upload", "copy"})
  /\ shot' = ShotReports(s, TRUE)
  /\ Previewed(s)
  /\ UNCHANGED <<disk, clash>>

CopyFails(s) ==
  /\ Acts(s, {"copy"})
  /\ shot' = ShotReports(s, FALSE)
  /\ UNCHANGED <<disk, previews, clash>>

\* The pin has loaded the picture when pin_spawn returns; no preview.
ShotPins(s, ok) ==
  /\ Acts(s, {"pin"})
  /\ shot' = ShotReports(s, ok)
  /\ UNCHANGED <<disk, previews, clash>>

ShotOutputs(s) == Acts(s, {"save"}) /\ Ends(s, "ok") /\ Previewed(s) /\ UNCHANGED <<disk, clash>>

-----------------------------------------------------------------------------
(* gapp_run_ocr.                                                           *)

\* grabit_ocr_run, then the source is released at once; without text it ends.
OcrReads(s, text) ==
  /\ Acts(s, {"ocr"})
  /\ shot' = [shot EXCEPT ![s].pc = IF text THEN "text" ELSE "gone", ![s].temp = FALSE, ![s].reg = NoPath,
                          ![s].result = IF text THEN "ok" ELSE "failed"]
  /\ disk' = IF shot[s].temp THEN Removed(shot[s].path) ELSE disk
  /\ UNCHANGED <<previews, clash>>

\* --show: the text card is a temporary file by the same name, not registered.
\* Translating before that fails back to the text.
OcrCard(s) ==
  /\ At(s, "text")
  /\ shot' = [shot EXCEPT ![s].pc = "card", ![s].path = Temp]
  /\ disk' = [disk EXCEPT ![Temp] = Whole(s)]
  /\ Meets(s, Temp)
  /\ UNCHANGED previews

OcrShown(s) == At(s, "card") /\ disk' = Removed(Temp) /\ Ends(s, "ok") /\ UNCHANGED <<previews, clash>>

\* The text is copied or discarded without a card.
OcrEnds(s) == At(s, "text") /\ Ends(s, "ok") /\ UNCHANGED <<disk, previews, clash>>

-----------------------------------------------------------------------------
\* gapp_release_source
ShotReleases(s) ==
  /\ At(s, "release")
  /\ disk' = IF shot[s].temp THEN Removed(shot[s].path) ELSE disk
  /\ Ends(s, shot[s].result)
  /\ UNCHANGED <<previews, clash>>

\* on_signal: gapp_unlink_tmpfile, then the default.
ShotSignalled(s) ==
  /\ Active(s)
  /\ disk' = IF shot[s].reg = NoPath THEN disk ELSE Removed(shot[s].reg)
  /\ Ends(s, IF shot[s].result = "kept" THEN "kept" ELSE "signalled")
  /\ UNCHANGED <<previews, clash>>

ShotKilled(s) == Active(s) /\ Ends(s, "killed") /\ UNCHANGED <<disk, previews, clash>>

-----------------------------------------------------------------------------
ShotInit ==
  /\ shot = [s \in Shooters |-> NewShot] /\ previews = {} /\ clash = {}
  /\ disk = [p \in Places |-> IF p \in {Mine, 0} THEN Whole("user") ELSE Absent]

ShotNext == \E s \in Shooters :
  \/ \E action \in {"upload", "copy", "save", "pin", "ocr"}, from \in {NoPath, Mine, Temp},
        edit, save \in BOOLEAN :
       /\ IF from = NoPath THEN ~edit ELSE (action = "save" => edit) /\ (edit => from = Temp)
       /\ save => action \in {"upload", "copy", "pin"} /\ (from = NoPath \/ edit)
       /\ ShotBegins(s, action, from, edit, save)
  \/ ShotRefused(s) \/ ShotNames(s) \/ ShotOpens(s)
  \/ (\E preview \in BOOLEAN : ShotWritten(s, preview)) \/ ShotDiscards(s)
  \/ UploadFails(s) \/ ShotSucceeds(s) \/ CopyFails(s) \/ (\E ok \in BOOLEAN : ShotPins(s, ok))
  \/ ShotOutputs(s) \/ (\E text \in BOOLEAN : OcrReads(s, text))
  \/ OcrCard(s) \/ OcrShown(s) \/ OcrEnds(s)
  \/ ShotReleases(s) \/ ShotSignalled(s) \/ ShotKilled(s)

-----------------------------------------------------------------------------
ShotTypeOK ==
  /\ \A p \in Places : disk[p].by \in Shooters \cup {"user", "nobody"}
  /\ \A s \in Shooters : /\ shot[s].path \in Places \cup {NoPath}
                         /\ shot[s].reg \in {NoPath, Temp}
                         /\ shot[s].temp => shot[s].reg = shot[s].path \/ At(s, "gone")
  /\ previews \cup clash \subseteq Shooters

\* No order of captures, failures, cancelled selections and signals costs a
\* picture: the user's own files stay as they are; what a command says it saved
\* is there and whole; the capture of a failed upload is kept whole for the
\* retry (actions.c:91); every other temporary file is gone once its command
\* ended or got a signal.  Left out: invocations that met at one path, which is
\* chosen long before it is written (paths.c:276) and not numbered among the
\* temporary files, and a kill.  A preview stays behind only after a failure,
\* a pin or an ocr (actions.c:88, 165).
CapturesAreKept ==
  /\ disk[Mine] = Whole("user") /\ disk[0] = Whole("user")
  /\ \A s \in Shooters \ clash :
       LET c == shot[s] IN
       c.pc = "gone" =>
         /\ c.result = "ok" /\ c.path \in Numbers => disk[c.path] = Whole(s)
         /\ c.result = "kept" => disk[c.path] = Whole(s)
         /\ c.result \in {"ok", "failed", "signalled"} /\ c.path = Temp =>
              disk[Temp].by # s \/ c.from = Temp \/ (c.result = "signalled" /\ c.action = "ocr")
         /\ s \in previews /\ c.result = "ok" => c.action \in {"pin", "ocr"}

=============================================================================
