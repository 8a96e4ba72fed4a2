----------------------------- MODULE SharedLock -----------------------------
(***************************************************************************)
(* What the control lock promises the rest of the kernel: at any instant   *)
(* either one processor holds the machine exclusively, or any number of    *)
(* processors hold it shared, and exclusive holds are granted in the order *)
(* in which the processors asked for them.  BrLock.tla implements this.    *)
(***************************************************************************)
CONSTANT Cpus      \* the processors

VARIABLES ahead,   \* for a processor in line, those in line before it
          inLine,  \* processors that asked for an exclusive hold and have
                   \* not given it back
          writer,  \* the set holding exclusively
          holders  \* the set holding shared

avars == <<ahead, inLine, writer, holders>>

AInit ==
  /\ ahead = [c \in Cpus |-> {}]
  /\ inLine = {}
  /\ writer = {}
  /\ holders = {}

\* A processor without a hold joins the line for an exclusive one.
Ask(c) ==
  /\ c \notin inLine \union holders
  /\ inLine' = inLine \union {c}
  /\ ahead' = [ahead EXCEPT ![c] = inLine]
  /\ UNCHANGED <<writer, holders>>

\* The head of the line is let in once no shared hold stands.
GrantExclusive(c) ==
  /\ c \in inLine
  /\ ahead[c] = {}
  /\ writer = {}
  /\ holders = {}
  /\ writer' = {c}
  /\ UNCHANGED <<ahead, inLine, holders>>

ReleaseExclusive(c) ==
  /\ writer = {c}
  /\ writer' = {}
  /\ inLine' = inLine \ {c}
  /\ ahead' = [d \in Cpus |-> ahead[d] \ {c}]
  /\ UNCHANGED holders

GrantShared(c) ==
  /\ writer = {}
  /\ c \notin inLine \union holders
  /\ holders' = holders \union {c}
  /\ UNCHANGED <<ahead, inLine, writer>>

ReleaseShared(c) ==
  /\ c \in holders
  /\ holders' = holders \ {c}
  /\ UNCHANGED <<ahead, inLine, writer>>

ANext ==
  \E c \in Cpus :
    \/ Ask(c)
    \/ GrantExclusive(c)
    \/ ReleaseExclusive(c)
    \/ GrantShared(c)
    \/ ReleaseShared(c)

ASpec == AInit /\ [][ANext]_avars
=============================================================================
