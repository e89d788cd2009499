----------------------------- MODULE FileEditor -----------------------------
(***************************************************************************)
(* The agents' file editor and one of the files it edits.  There are two:   *)
(* the tool str_replace_editor of envs/shell_env/base.py, which keeps its   *)
(* histories in the environment object and reads and writes with shell      *)
(* commands (docker, enroot, GCE) or an API (modal), and R2E-Gym's script   *)
(* file_editor.py, a process for each call that loads all histories from a  *)
(* file when it begins and stores them there when it ends.                  *)
(*                                                                          *)
(* docker's and enroot's write_file also note the text they overwrite, for  *)
(* an undo_edit() of the environment that nothing calls: left out.          *)
(*                                                                          *)
(* Texts are sequences of words and line breaks.  Which read and which      *)
(* write adds or removes a final line break is part of the model.           *)
(***************************************************************************)
EXTENDS Naturals, Sequences, FiniteSets, SequencesExt

CONSTANTS
    Words,          \* what lines consist of
    Nl,             \* a line break
    Inputs,         \* the texts an agent passes to the editor
    Files,          \* the texts other tools write to the file
    NoFile,
    MaxHistory,     \* MAX_HISTORY_PER_FILE
    MaxLen,         \* bound: length of the file
    MaxEdits,       \* bound: edits that are not undone
    Cuts            \* bound: what a write that is cut off has written

Text == Seq(Words \cup {Nl})

ASSUME EditorAssumption ==
    /\ Nl \notin Words
    /\ Inputs \subseteq Text /\ Files \subseteq Text
    /\ NoFile \notin Text
    /\ Cuts \subseteq Nat
    /\ MaxHistory \in Nat \ {0}

VARIABLES
    editor,         \* which of the editors it is, and how it writes
    file,           \* the file, or that there is none
    history,        \* its entry in _editor_history, or in the script's file
    trail,          \* what the file was before each edit not undone, a history
    intact          \* no call so far ended half-way in its history, a history

vars == <<editor, file, history, trail, intact>>

Script == editor = "script"

TypeOK ==
    /\ editor \in {"heredoc", "modal", "script"}
    /\ file \in Text \cup {NoFile}
    /\ history \in Seq(Text)
    /\ ~Script => Len(history) <= MaxHistory
    /\ trail \in Seq(Text \cup {NoFile})
    /\ intact \in BOOLEAN

Init ==
    /\ editor \in {"heredoc", "modal", "script"}
    /\ file \in Files \cup {NoFile}
    /\ history = <<>>
    /\ trail = <<>>
    /\ intact = TRUE

-----------------------------------------------------------------------------
(* Texts                                                                    *)

(* s without the x it ends with, and without those it begins with.          *)
Ending(s, x) ==
    CHOOSE n \in 0 .. Len(s) :
        (n > 0 => s[n] # x) /\ \A i \in n + 1 .. Len(s) : s[i] = x
Beginning(s, x) ==
    CHOOSE n \in 1 .. Len(s) + 1 :
        (n <= Len(s) => s[n] # x) /\ \A i \in 1 .. n - 1 : s[i] = x
Chomp(s, x) == SubSeq(s, 1, Ending(s, x))
Trim(s, x) == Chomp(SubSeq(s, Beginning(s, x), Len(s)), x)

(* Where o occurs in s, and whether str_replace takes it to occur once:     *)
(* occurrences do not overlap.                                              *)
Matches(s, o) == {p \in 1 .. Len(s) + 1 - Len(o) : SubSeq(s, p, p + Len(o) - 1) = o}
First(s, o) == CHOOSE p \in Matches(s, o) : \A q \in Matches(s, o) : p <= q
OccursOnce(s, o) ==
    /\ Matches(s, o) # {}
    /\ \A q \in Matches(s, o) : q = First(s, o) \/ (o # <<>> /\ q < First(s, o) + Len(o))

Replaced(s, o, n) ==
    LET p == First(s, o) IN SubSeq(s, 1, p - 1) \o n \o SubSeq(s, p + Len(o), Len(s))

(* The k-th line break of s.                                                *)
Breaks(s) == {p \in 1 .. Len(s) : s[p] = Nl}
Break(s, k) == CHOOSE p \in Breaks(s) : Cardinality({q \in Breaks(s) : q <= p}) = k

(* What a call reads of the file, and the file it leaves.  A command's      *)
(* output loses all line breaks at its end; a here-document gains one.      *)
Read(s) == IF Script THEN s ELSE Chomp(s, Nl)
Written(s) == IF editor = "heredoc" THEN Append(s, Nl) ELSE s

(* splitlines() does not count an empty last line, split("\n") does.        *)
NumLines(s) == IF ~Script /\ s = <<>> THEN 0 ELSE Cardinality(Breaks(s)) + 1

(* Seeded fault: the text goes before the line and not after it.            *)
SplicedBefore(s, k, t) ==
    IF k <= 1 THEN t \o <<Nl>> \o s
    ELSE SubSeq(s, 1, Break(s, k - 1)) \o t \o <<Nl>> \o SubSeq(s, Break(s, k - 1) + 1, Len(s))

(* s with the lines of t after its k-th.  The tool adds a line break after  *)
(* each of them, also where the text it has read does not end with one.     *)
Spliced(s, k, t) ==
    IF k = 0 THEN t \o <<Nl>> \o s
    ELSE IF k <= Cardinality(Breaks(s))
    THEN SubSeq(s, 1, Break(s, k)) \o t \o <<Nl>> \o SubSeq(s, Break(s, k) + 1, Len(s))
    ELSE IF Script THEN s \o <<Nl>> \o t
    ELSE s \o t \o <<Nl>>

-----------------------------------------------------------------------------
(* Calls that succeed                                                       *)

(* Seeded fault: the histories have no limit.                               *)
RememberAll(h) == Append(history, h)

(* _editor_add_history.  The script keeps all.                              *)
Remember(h) ==
    IF ~Script /\ Len(history) >= MaxHistory
    THEN Append(Tail(history), h)
    ELSE Append(history, h)

Fits(s) == Len(Written(s)) <= MaxLen /\ Len(trail) < MaxEdits /\ Len(history) < MaxEdits

(* The trail is kept as long as it can be compared with the history.        *)
Trailed(s) == IF intact THEN s ELSE <<>>

(* The tool notes the new text, the script an empty one.                    *)
Create(t) ==
    /\ file = NoFile
    /\ Fits(t)
    /\ file' = Written(t)
    /\ history' = Remember(IF Script THEN <<>> ELSE t)
    /\ trail' = Trailed(Append(trail, NoFile))
    /\ UNCHANGED <<editor, intact>>

(* The file becomes s.                                                      *)
Edited(s) ==
    /\ Fits(s)
    /\ file' = Written(s)
    /\ history' = Remember(Read(file))
    /\ trail' = Trailed(Append(trail, file))
    /\ UNCHANGED <<editor, intact>>

(* What is replaced by what: if old does not occur, the tool tries without  *)
(* the blanks around both.                                                  *)
Asked(o, n) ==
    IF Script \/ Matches(Read(file), o) # {} THEN <<o, n>> ELSE <<Trim(o, Nl), Trim(n, Nl)>>

CanReplace(o, n) ==
    /\ file # NoFile
    /\ o = n => Script
    /\ OccursOnce(Read(file), Asked(o, n)[1])

StrReplace(o, n) ==
    /\ CanReplace(o, n)
    /\ Edited(Replaced(Read(file), Asked(o, n)[1], Asked(o, n)[2]))

CanInsert(k) == file # NoFile /\ k <= NumLines(Read(file))

Insert(k, t) ==
    /\ CanInsert(k)
    /\ Edited(Spliced(Read(file), k, t))

CanUndo == file # NoFile /\ history # <<>>

(* Seeded fault: the entry stays in the history.                            *)
UndoPeeking ==
    /\ CanUndo
    /\ file' = Written(Last(history))
    /\ trail' = Trailed(Front(trail))
    /\ UNCHANGED <<editor, history, intact>>

Undo ==
    /\ CanUndo
    /\ file' = Written(Last(history))
    /\ history' = Front(history)
    /\ trail' = Trailed(Front(trail))
    /\ UNCHANGED <<editor, intact>>

(* The agent's other tools change the file behind the editor's back.        *)
Bash ==
    /\ file' \in Files \cup {NoFile}
    /\ UNCHANGED <<editor, history, trail, intact>>

-----------------------------------------------------------------------------
(* Calls that fail                                                          *)

(* What is left of a write of s that failed, or is said to have failed.     *)
Torn(s) ==
    {file, Written(s)} \cup {SubSeq(Written(s), 1, n) : n \in {m \in Cuts : m <= Len(Written(s))}}

(* A script that is killed has not stored its histories, or left a file     *)
(* that the next one cannot read, and takes for none.                       *)
Outlived(h) == {h} \cup IF Script THEN {history, <<>>} ELSE {}

Estranged ==
    /\ intact' = FALSE
    /\ trail' = <<>>
    /\ UNCHANGED editor

CreateFails(t) ==
    /\ file = NoFile
    /\ Fits(t)
    /\ file' \in Torn(t)
    /\ UNCHANGED <<editor, history, trail, intact>>

(* The tool adds to its history after the write, the script before.         *)
EditFails(s) ==
    /\ Fits(s)
    /\ file' \in Torn(s)
    /\ \/ ~Script /\ UNCHANGED <<editor, history, trail, intact>>
       \/ Script /\ history' \in Outlived(Remember(Read(file))) /\ Estranged

StrReplaceFails(o, n) ==
    /\ CanReplace(o, n)
    /\ EditFails(Replaced(Read(file), Asked(o, n)[1], Asked(o, n)[2]))

InsertFails(k, t) ==
    /\ CanInsert(k)
    /\ EditFails(Spliced(Read(file), k, t))

(* The entry is gone although its edit was not undone.                      *)
UndoFails ==
    /\ CanUndo
    /\ file' \in Torn(Last(history))
    /\ history' \in Outlived(Front(history))
    /\ Estranged

(* So may any other call of the script end, also one that only looks.       *)
Killed ==
    /\ Script
    /\ history' = <<>>
    /\ Estranged
    /\ UNCHANGED file

-----------------------------------------------------------------------------

Next ==
    \/ \E t \in Inputs : Create(t) \/ CreateFails(t)
    \/ \E o, n \in Inputs : StrReplace(o, n) \/ StrReplaceFails(o, n)
    \/ \E k \in 0 .. MaxLen + 1, t \in Inputs : Insert(k, t) \/ InsertFails(k, t)
    \/ Undo \/ UndoFails \/ Bash \/ Killed

Spec == Init /\ [][Next]_vars

-----------------------------------------------------------------------------
(* What the editors promise                                                 *)

(* "The undo_edit command will revert the last edit made to the file": as   *)
(* often as it is called, it gives back what the file was before the last   *)
(* edit not undone yet, whatever other tools did to the file and however    *)
(* many edits a history has forgotten.  The tool may change the number of   *)
(* line breaks at the end.  Exceptions: the creation of a file is not       *)
(* undone, and undo goes astray after an undo has failed, after the script  *)
(* was killed, and after a failed edit of the script.                       *)
UndoReverts ==
    [][Undo /\ intact =>
        /\ trail # <<>>
        /\ Last(trail) # NoFile =>
            IF Script THEN file' = Last(trail) ELSE Chomp(file', Nl) = Chomp(Last(trail), Nl)]_vars

(* s.split("\n")                                                            *)
Lines(s) ==
    LET m == Cardinality(Breaks(s))
        At(k) == IF k = 0 THEN 0 ELSE IF k > m THEN Len(s) + 1 ELSE Break(s, k)
    IN  [k \in 1 .. m + 1 |-> SubSeq(s, At(k - 1) + 1, At(k) - 1)]

(* The lines of the file with those of t after the k-th, up to empty lines  *)
(* at the end, where the tool may change their number.                      *)
InsertedAfter(k, t) ==
    LET old == Lines(file)
        new == SubSeq(old, 1, k) \o Lines(t) \o SubSeq(old, k + 1, Len(old))
    IN  IF Script THEN Lines(file') = new ELSE Chomp(Lines(file'), <<>>) = Chomp(new, <<>>)

(* "The new_str will be inserted AFTER the line insert_line of path": the   *)
(* lines of the file stay as they are, and in their order.                  *)
InsertsGoAfterLine ==
    [][\A k \in 0 .. MaxLen + 1, t \in Inputs : Insert(k, t) => InsertedAfter(k, t)]_vars

(* So they do, but for the last line of a file that the tool edits.         *)
InsertsKeepLines ==
    [][\A k \in 0 .. MaxLen + 1, t \in Inputs :
        Insert(k, t) /\ (Script \/ k = 0 \/ k < NumLines(Read(file))) => InsertedAfter(k, t)]_vars
=============================================================================
