------------------------------- MODULE Files -------------------------------
(***************************************************************************)
(* What the disk file system promises its callers (fs/fat/fat.h, "what     *)
(* survives an unclean shutdown"), with no clusters, tables or sectors.    *)
(* A name holds nothing, a directory or a file with its bytes.  One        *)
(* operation is in progress at a time; it concerns one name and would      *)
(* leave it holding `to`.  Until an operation on a name has returned       *)
(* success, a failure or a loss of power may leave that name in any of the *)
(* outcomes of Mix, and no other name is touched by either.                *)
(***************************************************************************)
EXTENDS Integers, Sequences

CONSTANT Names, Contents

VARIABLES
  file,    \* name -> what a caller finds under it
  doubt,   \* name -> everything it may turn out to hold
  busy     \* the operation in progress: its name and what it would leave

vars == <<file, doubt, busy>>

None == [is |-> "none", data |-> <<>>]
NoOp == [name |-> <<>>, to |-> None]
Dir  == [is |-> "dir", data |-> <<>>]
File(d) == [is |-> "file", data |-> d]

(* What a name that held `was` may hold when the step to `to` is cut       *)
(* short: the old size with each byte old or new, or all of the new.       *)
Mix(was, to) ==
  {to} \cup
  (IF was.is = "file" /\ to.is = "file"
   THEN {File([p \in DOMAIN was.data |->
                 IF p \in new THEN to.data[p] ELSE was.data[p]]) :
           new \in SUBSET (DOMAIN was.data \cap DOMAIN to.data)}
   ELSE {was})

Widen(set, to) == UNION {Mix(c, to) : c \in set}

Init ==
  /\ file \in [Names -> Contents]
  /\ doubt = [n \in Names |-> {file[n]}]
  /\ busy = NoOp

Begin(n) ==
  /\ busy = NoOp /\ busy'.name = <<n>> /\ busy'.to \in Contents
  /\ doubt' = [doubt EXCEPT ![n] = Widen(@, busy'.to)]
  /\ UNCHANGED file

Succeed(n) ==
  /\ busy.name = <<n>> /\ busy' = NoOp
  /\ file' = [file EXCEPT ![n] = busy.to]
  /\ doubt' = [doubt EXCEPT ![n] = {busy.to}]

Fail(n) ==
  /\ busy.name = <<n>> /\ busy' = NoOp
  /\ UNCHANGED doubt
  /\ \E c \in doubt[n] : file' = [file EXCEPT ![n] = c]

(* A name whose last operation failed is read from the disk again.         *)
Reread(n) ==
  /\ busy = NoOp /\ UNCHANGED <<busy, doubt>>
  /\ \E c \in doubt[n] : file' = [file EXCEPT ![n] = c]

(* Power is lost: every name in doubt settles on one of its outcomes.      *)
PowerLoss ==
  LET unsure == {n \in Names : doubt[n] # {file[n]}}
  IN \E f \in [unsure -> UNION {doubt[n] : n \in unsure}] :
       /\ \A n \in unsure : f[n] \in doubt[n]
       /\ file' = [n \in Names |-> IF n \in unsure THEN f[n] ELSE file[n]]
       /\ doubt' = [n \in Names |-> {file'[n]}]
       /\ busy' = NoOp

Next ==
  \/ \E n \in Names : Begin(n) \/ Succeed(n) \/ Fail(n) \/ Reread(n)
  \/ PowerLoss

Spec == Init /\ [][Next]_vars
=============================================================================
