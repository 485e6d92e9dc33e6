------------------------- MODULE ThreadCacheManager -------------------------
(***************************************************************************)
(* thread_cache_manager: creates a thread's cache on its first call, keeps  *)
(* every cache in a registry under its thread's id, and deletes caches when *)
(* a thread asks for it, when some thread asks for it, or at shutdown().    *)
(*                                                                          *)
(* The registry is only touched with mutex_ held, so a critical section is  *)
(* one action.  The calls themselves take no lock: between the test of      *)
(* shutdown_, the creation, the registration and the use of the cache other *)
(* threads run.  tls_cache_ and tls_initialized_ are always assigned        *)
(* together, so one variable stands for both.                               *)
(*                                                                          *)
(* A thread that has exited may come back as a new thread with the same     *)
(* id, whether its cache was cleaned up or not.  The bins of `t` are those  *)
(* of the last cache constructed under id t.                                *)
(*                                                                          *)
(* Two rules of the README are taken as given: shutdown() is not called     *)
(* while other threads are in a call, and a running thread's cache is only  *)
(* cleaned up by itself.                                                    *)
(***************************************************************************)
EXTENDS ThreadCache

VARIABLES
  shutdown,    \* shutdown_
  registered,  \* the keys of all_caches_
  tls,         \* the threads whose tls_cache_ is set
  at,          \* where each thread is
  orphaned,    \* history: the objects in caches that nothing points to any more
  ignored      \* history: the objects given back to a class that is not theirs

lossVars == <<orphaned, ignored>>
managerVars == <<cacheVars, shutdown, registered, tls, at, lossVars>>

Goto(t, l) == at' = [at EXCEPT ![t] = l]

-----------------------------------------------------------------------------
(* A call of allocate, deallocate or their batch forms *)

\* Mutant: shutdown_ is not looked at when the thread has a cache.
EnterUnchecked(t) ==
  /\ at[t] = "idle"
  /\ Goto(t, IF t \in tls THEN "use" ELSE IF shutdown THEN "arena" ELSE "create")
  /\ UNCHANGED <<cacheVars, shutdown, registered, tls, lossVars>>

\* get_or_create_cache(): after shutdown the call goes to the arena.
Enter(t) ==
  /\ at[t] = "idle"
  /\ Goto(t, IF shutdown THEN "arena" ELSE IF t \in tls THEN "use" ELSE "create")
  /\ UNCHANGED <<cacheVars, shutdown, registered, tls, lossVars>>

\* The objects in the bins of t's cache.
Contents(t) == UNION {Cached(t, c) : c \in Classes}

\* A new cache.  If the registry still has one under this id, from a thread that has
\* exited, its entry is about to be overwritten, and that cache can never be deleted.
Create(t) ==
  /\ at[t] = "create"
  /\ Construct(t)
  /\ orphaned' = orphaned \cup Contents(t)
  /\ tls' = tls \cup {t}
  /\ Goto(t, "register")
  /\ UNCHANGED <<shutdown, registered, ignored>>

Register(t) ==
  /\ at[t] = "register"
  /\ registered' = registered \cup {t}
  /\ Goto(t, "use")
  /\ UNCHANGED <<cacheVars, shutdown, tls, lossVars>>

\* The cache's operation; on a deleted cache it is undefined, and not modelled.
Use(t) ==
  /\ at[t] = "use" /\ t \in alive
  /\ Operate(t)
  /\ Goto(t, "idle")
  /\ UNCHANGED <<shutdown, registered, tls, lossVars>>

\* The same operations on the arena itself.  Its deallocate() looks in every class for
\* an object, its deallocate_batch() only in the one that the size names.
UseArena(t) ==
  /\ at[t] = "arena"
  /\ \E c \in Classes :
       \/ /\ \E n \in 1 .. MaxBatch : MayHold(n) /\ \E S \in Supplies(free, c, n) :
               HandOver(c, S) /\ free' = free \ S
          /\ UNCHANGED ignored
       \/ /\ \E p \in HeldAs(c) : held' = held \ {<<c, p>>} /\ free' = free \cup {p}
          /\ UNCHANGED ignored
       \/ \E P \in SUBSET HeldAs(c) :
            /\ Cardinality(P) \in 1 .. MaxBatch
            /\ held' = held \ {<<c, p>> : p \in P}
            /\ free' = free \cup {p \in P : p[1] = c}
            /\ ignored' = ignored \cup {p \in P : p[1] # c}
  /\ Goto(t, "idle")
  /\ UNCHANGED <<alive, ptrs, ncached, shutdown, registered, tls, orphaned>>

-----------------------------------------------------------------------------
(* The end of caches and of threads *)

\* What the destructor of t's cache gives back and the arena does not take.
Untaken(t) == {p \in Contents(t) : p[1] # Eight}

\* Mutant: the cache is deleted and stays in the registry.
DeleteKept(T) ==
  /\ Destroy(T)
  /\ ignored' = ignored \cup UNION {Untaken(t) : t \in T}
  /\ UNCHANGED <<registered, orphaned>>

Delete(T) ==
  /\ Destroy(T)
  /\ registered' = registered \ T
  /\ ignored' = ignored \cup UNION {Untaken(t) : t \in T}
  /\ UNCHANGED orphaned

\* cleanup_current_thread(): the cache first, under the lock ...
CleanupCurrent(t) ==
  /\ at[t] = "idle"
  /\ Delete({t} \cap registered)
  /\ Goto(t, "reset")
  /\ UNCHANGED <<shutdown, tls>>

\* ... then the thread's own pointer.
ResetCurrent(t) ==
  /\ at[t] = "reset"
  /\ tls' = tls \ {t}
  /\ Goto(t, "idle")
  /\ UNCHANGED <<cacheVars, shutdown, registered, lossVars>>

\* cleanup_thread_cache(u), for a thread that has exited: u's pointer stays as it is.
CleanupThread(t, u) ==
  /\ at[t] = "idle" /\ at[u] = "gone"
  /\ u \in registered
  /\ Delete({u})
  /\ UNCHANGED <<shutdown, tls, at>>

\* shutdown(): the CAS on the flag, while no other thread is in a call ("initialize() and
\* shutdown() are not thread safe") ...
Shutdown(t) ==
  /\ at[t] = "idle" /\ ~shutdown
  /\ \A u \in Threads : at[u] \in {"idle", "gone"}
  /\ shutdown' = TRUE
  /\ Goto(t, "shutdown")
  /\ UNCHANGED <<cacheVars, registered, tls, lossVars>>

\* ... and, under the lock, every registered cache.  No tls_cache_ is reset.
ShutdownDelete(t) ==
  /\ at[t] = "shutdown"
  /\ Delete(registered)
  /\ Goto(t, "idle")
  /\ UNCHANGED <<shutdown, tls>>

\* Nothing happens to the cache of a thread that exits.
Exit(t) ==
  /\ at[t] = "idle"
  /\ tls' = tls \ {t}
  /\ Goto(t, "gone")
  /\ UNCHANGED <<cacheVars, shutdown, registered, lossVars>>

\* A running thread starts a new one, which gets the id of one that has exited.  The old
\* thread's cache may be in the registry: cleaning up is the caller's choice.
Start(t) ==
  /\ at[t] = "gone" /\ \E u \in Threads : at[u] # "gone"
  /\ Goto(t, "idle")
  /\ UNCHANGED <<cacheVars, shutdown, registered, tls, lossVars>>

\* The process ends: the singleton's destructor calls shutdown().
ProcessExit ==
  /\ \A t \in Threads : at[t] = "gone"
  /\ ~shutdown
  /\ shutdown' = TRUE
  /\ Delete(registered)
  /\ UNCHANGED <<tls, at>>

-----------------------------------------------------------------------------
ManagerInit ==
  /\ CacheInit
  /\ shutdown = FALSE
  /\ registered = {}
  /\ tls = {}
  /\ at = [t \in Threads |-> "idle"]
  /\ orphaned = {} /\ ignored = {}

ManagerNext ==
  \/ \E t \in Threads :
       \/ Enter(t) \/ Create(t) \/ Register(t) \/ Use(t) \/ UseArena(t)
       \/ CleanupCurrent(t) \/ ResetCurrent(t)
       \/ \E u \in Threads : CleanupThread(t, u)
       \/ Shutdown(t) \/ ShutdownDelete(t)
       \/ Exit(t) \/ Start(t)
  \/ ProcessExit

ManagerSpec == ManagerInit /\ [][ManagerNext]_managerVars

-----------------------------------------------------------------------------
ManagerTypeOK ==
  /\ CacheTypeOK
  /\ shutdown \in BOOLEAN
  /\ registered \in SUBSET Threads
  /\ tls \in SUBSET Threads
  /\ at \in [Threads -> {"idle", "create", "register", "use", "arena", "reset",
                         "shutdown", "gone"}]
  /\ orphaned \in SUBSET Objects
  /\ ignored \in SUBSET Objects

\* A call uses a cache only while it exists: no deletion falls between the
\* moment get_or_create_cache() returns it and the moment it is used.
UsedCacheExists == \A t \in Threads : at[t] \in {"register", "use"} => t \in alive

\* The registry names no cache that was deleted, so that none is deleted twice; and it names
\* the cache of every id but while its thread enters it, though ids come back.  What
\* it does not name are the caches whose entry a later thread has overwritten.
RegistryExact ==
  /\ registered \subseteq alive
  /\ \A t \in alive : t \in registered \/ at[t] = "register"

\* An object that a cache or the arena has dropped is dropped for good, and the others are
\* free, in a bin or with a caller: an id that is used again without cleanup, a cache that is
\* deleted and a batch that is given back cost the objects they are seen to cost, and no more.
LossesKnown ==
  LET binned == {At(l) : l \in Live}
      lost   == orphaned \cup ignored
  IN  /\ Objects = free \cup HeldObjects \cup binned \cup lost
      /\ lost \cap (free \cup HeldObjects \cup binned) = {}

\* When shutdown() is over, every object that no caller holds is back in the arena, but for
\* those in caches whose entry had been overwritten and those of which
\* flush_arena() or a batch named the wrong class.
ShutdownReturnsAll ==
  shutdown /\ (\A t \in Threads : at[t] # "shutdown") =>
    free = Objects \ (HeldObjects \cup orphaned \cup ignored)

=============================================================================
