---------------------------- MODULE MCFileEditor ----------------------------
(* An agent that passes a word or a line, a file of up to two lines that    *)
(* others write, and a history that forgets the first of two edits.         *)
EXTENDS FileEditor

CONSTANTS a, b, nl

MCWords == {a, b}
MCInputs == {<<a>>, <<b, nl>>}
MCFiles == {<<a>>, <<a, nl, b>>}
=============================================================================
