----------------------------- MODULE MCSizeClass -----------------------------
\* Model values for the run of SizeClass that checks its safety, and the behaviours for
\* the run that shows how a batch does not return.
EXTENDS SizeClass, TLC

Symmetry == Permutations(Threads)

\* The counts of the chunk in use leave room for an object, though bits that other threads
\* have just cleared are still counted.
CountsLeaveRoom(t) ==
  LET c == loc[t].cur
  IN  \/ c \in drift
      \/ Cardinality(Room(c)) >
           Cardinality({u \in Threads \ {t} : at[u] = "lower" /\ loc[u].cur = c})

\* The behaviours in which a thread takes objects only while the counts show room for them,
\* as those do in which no time passes between its look at the counts and its CAS; in which
\* a batch misses no room; and in which a count that has drifted is too low, so that its
\* chunk is never full.
PromptNext ==
  /\ ClassNext
  /\ \A t \in Threads :
       /\ (TakeOne(t) \/ TakeMany(t)) /\ taken' # taken => CountsLeaveRoom(t)
       /\ TakeMany(t) /\ taken' = taken => Room(loc[t].cur) = {}
       /\ at[t] \in {"ask", "visit"} /\ at'[t] = "visit" /\ loc'[t] # loc[t] =>
            loc[t].cur \notin drift

\* The operating system runs every thread that is inside a call.
FairPromptSpec ==
  /\ ClassInit /\ [][PromptNext]_classVars
  /\ \A t \in Threads : WF_classVars(ClassStep(t))
=============================================================================
