--------------------------- MODULE VersionArchive ---------------------------
(***************************************************************************)
(* What the store promises whoever reads it, with no process, lock or      *)
(* discovery in sight: a version is kept with all its pins, is never       *)
(* replaced, has a text that can be read and that nobody writes again; the *)
(* latest version is the one kept last; an answer of ok names a version    *)
(* that is kept (workflows.py:262-323, SPEC.md:38).                        *)
(*                                                                         *)
(* One thing it does not promise: of a code that several processes were    *)
(* storing at once (`contested`) the text may be written again.            *)
(*                                                                         *)
(* WorkflowStore implements this; its refinement mapping is at its end.    *)
(***************************************************************************)
CONSTANTS
    Codes,         \* what a workflow's code may be
    Pinnings,      \* a schema for each tool
    Absent,        \* no such version
    Nobody         \* no code, no answer

VARIABLES
    kept,          \* the pins of each version, or Absent
    listed,        \* the workflow can be found
    latest,        \* the version kept last
    texts,         \* the file of each code: none, empty or whole
    contested,     \* codes that were being stored several times at once
    told           \* the last answer: Nobody, if it was not ok

archiveVars == <<kept, listed, latest, texts, contested, told>>

Answer(c, pins, created) == [code |-> c, pins |-> pins, created |-> created]

ArchiveInit ==
    /\ kept = [c \in Codes |-> Absent] /\ listed = FALSE /\ latest = Nobody
    /\ texts = [c \in Codes |-> "none"]
    /\ contested = {}
    /\ told = Nobody

Contest(c) ==
    /\ kept[c] = Absent
    /\ contested' = contested \cup {c}
    /\ UNCHANGED <<kept, listed, latest, texts, told>>

\* Emptied, then written.
Rewrite(c) ==
    /\ kept[c] = Absent \/ c \in contested
    /\ \E text \in {"empty", "whole"} : texts' = [texts EXCEPT ![c] = text]
    /\ UNCHANGED <<kept, listed, latest, contested, told>>

\* The version, the pointer to it and the workflow become visible as one.
Keep(c, pins) ==
    /\ kept[c] = Absent
    /\ texts[c] = "whole" \/ c \in contested
    /\ kept' = [kept EXCEPT ![c] = pins]
    /\ listed' = TRUE /\ latest' = c
    /\ told' = Answer(c, pins, TRUE)
    /\ UNCHANGED <<texts, contested>>

\* The version is there: what is told are the pins it would have had now.
Find(c, pins) ==
    /\ kept[c] # Absent
    /\ told' = Answer(c, pins, FALSE)
    /\ UNCHANGED <<kept, listed, latest, texts, contested>>

Refuse == told' = Nobody /\ UNCHANGED <<kept, listed, latest, texts, contested>>

ArchiveNext ==
    \/ \E c \in Codes :
          \/ Contest(c) \/ Rewrite(c)
          \/ \E pins \in Pinnings : Keep(c, pins) \/ Find(c, pins)
    \/ Refuse

ArchiveSpec == ArchiveInit /\ [][ArchiveNext]_archiveVars
=============================================================================
