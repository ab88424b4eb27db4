--------------------------- MODULE MCOwnerAccess ---------------------------
(* Instances of OwnerAccess for TLC. *)
EXTENDS OwnerAccess, TLC

CONSTANT m1

Names == Permutations(Request) \cup Permutations(Key) \cup Permutations(Device)

\* Bound: sessions begin when every run of bootstrap_owner has made or found the owner,
\* one of those there may be, and made no second, whom no session has to do with.
BootFirst ==
  (\E k \in Key : store[k] # None)
    => owners = <<m1>> /\ \A c \in Command : boot[c].pc = "done"

\* Bound: one completed reset that found something.
OneReset == revoked # {} => reset.pc = "idle"
=============================================================================
