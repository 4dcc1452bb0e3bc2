------------------------------- MODULE DocsSite -------------------------------
(***************************************************************************)
(* What the incremental build promises a reader of one documentation tree: *)
(* while a build runs, each page moves in one step from what it said to    *)
(* what the API model says, and the build is over only when every page     *)
(* agrees with the model.  How pages are compared, written, recorded and   *)
(* swept is IncrementalBuild's business.                                   *)
(***************************************************************************)
CONSTANTS Items, Contents, None

VARIABLES
  model,     \* item -> its content in the API model, or None
  site,      \* item -> the content its page shows, or None without a page
  building   \* a build is running

vars == <<model, site, building>>

Init ==
  /\ model \in [Items -> Contents \cup {None}]
  /\ site = [i \in Items |-> None]
  /\ building = FALSE

\* The model is read when a build starts and stays as it is until the end.
Edit(i, content) ==
  /\ ~building
  /\ model' = [model EXCEPT ![i] = content]
  /\ UNCHANGED <<site, building>>

Begin ==
  /\ ~building
  /\ building' = TRUE
  /\ UNCHANGED <<model, site>>

\* A page appears, is replaced, or is retracted because its item is gone.
Publish(i) ==
  /\ building
  /\ site' = [site EXCEPT ![i] = model[i]]
  /\ UNCHANGED <<model, building>>

End ==
  /\ building
  /\ site = model
  /\ building' = FALSE
  /\ UNCHANGED <<model, site>>

Next ==
  \/ \E i \in Items, content \in Contents \cup {None} : Edit(i, content)
  \/ Begin
  \/ \E i \in Items : Publish(i)
  \/ End

Spec == Init /\ [][Next]_vars
================================================================================
