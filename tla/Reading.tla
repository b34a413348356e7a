------------------------------ MODULE Reading ------------------------------
(* A part of the server that reads: it is given one input and, in one step,  *)
(* makes something of it.                                                   *)
EXTENDS Sequences

CONSTANT Inputs  \* [subject, given]: a part of the server that reads, and some of its inputs

VARIABLES subject,  \* the part that reads
          given,    \* what it reads
          made      \* what it made of it: <<>> until it has

Make(value) == made = <<>> /\ made' = <<value>> /\ UNCHANGED <<subject, given>>
Made(part) == subject = part /\ made # <<>>

\* One part alone, with the inputs it may be given.
Begun(part) == made = <<>> /\ subject = part /\ \E i \in Inputs : i.subject = part /\ given \in i.given
=============================================================================
