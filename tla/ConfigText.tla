----------------------------- MODULE ConfigText -----------------------------
(***************************************************************************)
(* The text of config.toml: what `set`, `unset` and `set keys --reset` do  *)
(* to the lines of a file the user has written by hand (config/patch.c),   *)
(* what config_load makes of the result (config.c, kv.c), and the file     *)
(* that is written anew when it is gone (save.c).  Settings has the order  *)
(* of reads and writes of several invocations; here one follows the other. *)
(*                                                                         *)
(* A key is a path, <<"s", "a">> for s.a.  A line is a header, a key or    *)
(* other text; `note` is a comment at its end.  A value is a word, a whole *)
(* number or a decimal one, in quotes or bare.                             *)
(***************************************************************************)
EXTENDS Naturals, SequencesExt

CONSTANTS MaxLines,      \* lines of the file that is there at first
          MaxTextEdits   \* commands
ASSUME ConfigTextAssumption == MaxLines \in Nat /\ MaxTextEdits \in Nat

VARIABLES
  text,     \* the lines of config.toml
  plain,    \* history: the user left no comment after a header and dotted no key
  asked,    \* history: what each key was at first, or was set to since
  edits     \* commands so far

textVars == <<text, plain, asked, edits>>

Header(name, note)         == [is |-> "header", name |-> name, val |-> "none", bare |-> FALSE, note |-> note]
KeyLine(name, val, b, note) == [is |-> "key", name |-> name, val |-> val, bare |-> b, note |-> note]
Other                      == [is |-> "other", name |-> <<>>, val |-> "none", bare |-> FALSE, note |-> FALSE]

\* In the order of strcmp.
TextKeys   == << <<"a">>, <<"b">>, <<"s", "a">>, <<"s", "b">>, <<"s", "s", "a">> >>
Rank(key)  == CHOOSE i \in DOMAIN TextKeys : TextKeys[i] = key
Settable   == {TextKeys[i] : i \in 1 .. 4}
BareValues == {"whole", "decimal"}
TextValues == {"word"} \cup BareValues

-----------------------------------------------------------------------------
(* The keys in memory, sorted (kv.c).                                      *)

LowerBound(kvs, key) ==
  LET within[lo \in 1 .. Len(kvs) + 1, hi \in 1 .. Len(kvs) + 1] ==
        LET mid == lo + (hi - lo) \div 2 IN
        IF lo >= hi THEN lo
        ELSE IF Rank(kvs[mid].key) < Rank(key) THEN within[mid + 1, hi] ELSE within[lo, mid]
  IN within[1, Len(kvs) + 1]

Holds(kvs, i, key) == i <= Len(kvs) /\ kvs[i].key = key

\* config_get
Lookup(kvs, key) ==
  LET i == LowerBound(kvs, key) IN IF Holds(kvs, i, key) THEN kvs[i].val ELSE "none"

Upsert(kvs, key, val) ==
  LET i == LowerBound(kvs, key) IN
  IF Holds(kvs, i, key) THEN [kvs EXCEPT ![i].val = val] ELSE InsertAt(kvs, i, [key |-> key, val |-> val])

\* key_matches: of a prefix the dot at its end is part.
KeyMatches(full, key, prefix) == IF prefix THEN IsStrictPrefix(key, full) ELSE full = key

-----------------------------------------------------------------------------
(* Reading the file (tomlc99, flatten_table).                              *)

\* The section that line i of f is in, if the headers in hs are told by.
SectionIn(f, i, hs) ==
  LET above == {j \in hs : j <= i} IN IF above = {} THEN <<>> ELSE f[CHOOSE j \in above : \A k \in above : k <= j].name

Of(f, is)     == {i \in DOMAIN f : f[i].is = is}
TrueKey(f, i) == SectionIn(f, i, Of(f, "header")) \o f[i].name

\* No key and no table twice; and a table that dotted keys have made is closed.
Readable(f) ==
  /\ \A i, j \in Of(f, "key") : TrueKey(f, i) = TrueKey(f, j) => i = j
  /\ \A i, j \in Of(f, "header") : f[i].name = f[j].name => i = j
  /\ \A i \in Of(f, "header"), j \in Of(f, "key") :
       j < i => ~(/\ IsStrictPrefix(f[i].name, TrueKey(f, j))
                  /\ IsStrictPrefix(SectionIn(f, j, Of(f, "header")), f[i].name))

\* flatten_table knows strings, truth values and whole numbers.
InMemoryOf(f) ==
  LET takes(kvs, i) == IF f[i].is # "key" \/ (f[i].bare /\ f[i].val = "decimal") THEN kvs
                       ELSE Upsert(kvs, TrueKey(f, i), f[i].val)
  IN FoldLeft(takes, <<>>, [i \in DOMAIN f |-> i])

-----------------------------------------------------------------------------
(* Editing it in place (patch.c).                                          *)

\* line_is_section does not see a header with a comment behind it ...
SeenHeaders(f) == {i \in Of(f, "header") : ~f[i].note}

\* ... and so line_key takes what follows for keys of the section before.
SeenSection(f, i) == SectionIn(f, i, SeenHeaders(f))
SeenKey(f, i)     == SeenSection(f, i) \o f[i].name
Hits(f, i, key, prefix) == f[i].is = "key" /\ KeyMatches(SeenKey(f, i), key, prefix)

\* The value is replaced, what stands around it stays (value_end, emit_kv).
Rewritten(line, val) == [line EXCEPT !.val = val, !.bare = line.bare /\ val \in BareValues]

\* gcfg_emit_key, gcfg_emit_value
NewKey(key, val) == KeyLine(<<Last(key)>>, val, FALSE, FALSE)

\* The first loop of cfg_file_edit: the lines after which a new key may stand.
Anchors(f, section) ==
  {i \in DOMAIN f : SeenSection(f, i) = section /\ (i \in SeenHeaders(f) \/ f[i].is = "key")}

\* Slip: a new key goes to the end of the file.
NewAtEnd(f, section) == Len(f)

\* A missing section is added at the end, a key of no section at the top.
NewLines(f, key, val) ==
  LET section == Front(key) IN
  IF section # <<>> /\ Anchors(f, section) = {} THEN <<Other, Header(section, FALSE), NewKey(key, val)>>
                                                 ELSE <<NewKey(key, val)>>

NewAt(f, section) ==
  LET after == Anchors(f, section) IN
  IF after # {} THEN CHOOSE i \in after : \A j \in after : j <= i ELSE IF section = <<>> THEN 0 ELSE Len(f)

\* cfg_file_edit; "none" removes.
Edited(f, key, val, prefix) ==
  LET line(i) == IF ~Hits(f, i, key, prefix) THEN <<f[i]>>
                 ELSE IF val = "none" THEN <<>> ELSE <<Rewritten(f[i], val)>>
      lines(lo, hi) == FlattenSeq([k \in 1 .. hi + 1 - lo |-> line(lo + k - 1)])
      at == NewAt(f, IF prefix THEN <<>> ELSE Front(key))
  IN IF val # "none" /\ \A i \in DOMAIN f : ~Hits(f, i, key, prefix)
     THEN lines(1, at) \o NewLines(f, key, val) \o lines(at + 1, Len(f))
     ELSE lines(1, Len(f))

-----------------------------------------------------------------------------
(* Writing it anew (config_write_to).                                      *)

\* gcfg_cmp_kv; of two sections here one is always in the other.
WrittenBefore(x, y) ==
  LET inX == Front(x.key)
      inY == Front(y.key)
  IN IF inX = inY THEN Rank(x.key) < Rank(y.key) ELSE IsStrictPrefix(inX, inY)

Saved(kvs) ==
  LET s == SortSeq(kvs, WrittenBefore)
      section(i) == Front(s[i].key)
      opens(i) == IF section(i) = <<>> \/ (i > 1 /\ section(i - 1) = section(i)) THEN <<>>
                  ELSE (IF i > 1 THEN <<Other>> ELSE <<>>) \o <<Header(section(i), FALSE)>>
  IN FlattenSeq([i \in DOMAIN s |-> opens(i) \o <<NewKey(s[i].key, s[i].val)>>])

-----------------------------------------------------------------------------
(* The commands.  A file that cannot be read is set aside (Settings).      *)

Commanded(newText, newAsked) ==
  /\ Readable(text) /\ edits < MaxTextEdits
  /\ text' = newText /\ asked' = newAsked /\ edits' = edits + 1
  /\ UNCHANGED plain

\* config_load: what each key is in the file.
TextLoaded == LET kvs == InMemoryOf(text) IN [key \in Settable |-> Lookup(kvs, key)]

\* cmd_set, cfg_store
TextSet(key, val) == Commanded(Edited(text, key, val, FALSE), [asked EXCEPT ![key] = val])

\* The file goes away after it was loaded: cfg_persist writes what is in memory.
TextSetAnew(key, val) ==
  Commanded(Saved(Upsert(InMemoryOf(text), key, val)), [TextLoaded EXCEPT ![key] = val])

\* cmd_unset; what is not set is left alone.
TextUnset(key) ==
  /\ TextLoaded[key] # "none"
  /\ Commanded(Edited(text, key, "none", FALSE), [asked EXCEPT ![key] = "none"])

\* cmd_set_reset of all keys of a section.
TextReset(section) ==
  /\ \E key \in Settable : IsStrictPrefix(section, key) /\ TextLoaded[key] # "none"
  /\ Commanded(Edited(text, section, "none", TRUE),
               [key \in Settable |-> IF IsStrictPrefix(section, key) THEN "none" ELSE asked[key]])

-----------------------------------------------------------------------------
\* What the user writes; a bare value has a comment behind it.
UserLines == {Other} \cup {Header(<<"s">>, note) : note \in BOOLEAN}
               \cup {KeyLine(name, "word", FALSE, FALSE) : name \in {<<"a">>, <<"b">>, <<"s", "a">>}}
               \cup {KeyLine(<<"a">>, "whole", TRUE, TRUE)}

UserFiles == {f \in SeqOf(UserLines, MaxLines) : Readable(f)}

ConfigTextInit ==
  /\ text \in UserFiles
  /\ plain = \A i \in DOMAIN text : ~(text[i].is = "header" /\ text[i].note) /\ Len(text[i].name) <= 1
  /\ asked = TextLoaded
  /\ edits = 0

ConfigTextNext ==
  \/ \E key \in Settable, val \in TextValues : TextSet(key, val) \/ TextSetAnew(key, val)
  \/ (\E key \in Settable : TextUnset(key)) \/ TextReset(<<"s">>)

ConfigTextSpec == ConfigTextInit /\ [][ConfigTextNext]_textVars

-----------------------------------------------------------------------------
ConfigTextTypeOK == edits \in 0 .. MaxTextEdits /\ DOMAIN asked = Settable

\* Editing the lines (cfg_file_edit) does to the file what was asked of the keys,
\* and nothing else: it can still be read, and each key is what it was or was last
\* set to, in whatever order the user has written his keys, sections and remarks.
\* Left out: files with a comment behind a header or with dotted keys, and a
\* decimal number that replaces a bare one, which the loader drops (config.c:75).
TextFollowsCommands ==
  plain => /\ Readable(text)
           /\ LET got == TextLoaded IN \A key \in Settable : got[key] = asked[key] \/ asked[key] = "decimal"

\* OPTIONS.md: "grabit set <key> <value>      # write (validated)": a value that
\* was set is there, and the file can be read.
SetIsRead == Readable(text) /\ TextLoaded = asked
=============================================================================
