------------------------------ MODULE LogFifo ------------------------------
(* What the asynchronous log promises: the file holds a prefix of the lines *)
(* logged, in order and without a gap, and only ever grows.                 *)
EXTENDS SequencesExt

CONSTANT Line

VARIABLES
  logged,  \* every line handed to the log, in order
  file     \* the lines in the file

Init == logged = <<>> /\ file = <<>>

Log == /\ \E line \in Line : logged' = Append(logged, line)
       /\ UNCHANGED file

Write == /\ IsPrefix(file, file') /\ IsPrefix(file', logged)
         /\ UNCHANGED logged

Next == Log \/ Write

Spec == Init /\ [][Next]_<<logged, file>>
=============================================================================
