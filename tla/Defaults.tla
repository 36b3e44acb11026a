------------------------------- MODULE Defaults -------------------------------
(***************************************************************************)
(* The process-wide defaults: loaded once from the environment, changed by *)
(* setters that any thread may call, and read by the one construction of   *)
(* the MULTI_POLL reactor pool.  A setter checks its argument, and for the *)
(* settings the pool depends on also whether the pool has started; then it *)
(* stores.  Nothing locks the two steps together.                          *)
(*                                                                         *)
(* A setting is a number; words (booleans, enumerations, lists of status   *)
(* codes) are numbers here, and text that is none of them is Garbage.      *)
(***************************************************************************)
EXTENDS Integers, FiniteSets

CONSTANTS Settings,     \* names of settings, "reactors" and "requests" among them
          Lowest(_),    \* the lowest value a setting accepts: 1, or 0
          DefaultOf(_),
          EnvValues, Garbage,
          SetterThreads, SetValues, NoSetter

\* The settings whose setters ask whether the reactor pool has started.
PoolSettings == {"reactors", "requests"}

ASSUME DefaultsAssumption ==
    /\ PoolSettings \subseteq Settings
    /\ \A s \in Settings : DefaultOf(s) \in Int /\ Lowest(s) \in Int /\ DefaultOf(s) >= Lowest(s)
    /\ Lowest("reactors") = 1
    /\ EnvValues \ {Garbage} \subseteq Int /\ SetValues \subseteq Int

VARIABLES
    environ,   \* the values the variables of a setting hold: none, one, or two aliases' two
    inForce,   \* the members of defaults, before the constructor the built-in values
    loaded,    \* whether defaults::instance() exists
    setter,    \* the call each thread is in: what it checked and has not stored
    pool       \* the construction of MultiReactorPool and the values it read

defaultsVars == <<environ, inForce, loaded, setter, pool>>

NoReactorPool == [pc |-> "none", reactors |-> 0, requests |-> 0]

DefaultsInit ==
    /\ environ \in [Settings -> {vs \in SUBSET EnvValues : Cardinality(vs) <= 2}]
    /\ inForce = [s \in Settings |-> DefaultOf(s)]
    /\ loaded = FALSE
    /\ setter = [t \in SetterThreads |-> NoSetter]
    /\ pool = NoReactorPool

\* getenv_or(): an unset variable leaves the default; text that cannot be converted, and
\* two aliases with different values, throw.
Parses(s) == Cardinality(environ[s]) <= 1 /\ Garbage \notin environ[s]
GetenvOr(s) == IF environ[s] = {} THEN DefaultOf(s) ELSE CHOOSE v \in environ[s] : TRUE

\* defaults::defaults() on the first use.  When it throws there is no instance, and the
\* next use tries again.
LoadDefaults ==
    /\ ~loaded
    /\ \A s \in Settings : Parses(s) /\ GetenvOr(s) >= Lowest(s)
    /\ inForce' = [s \in Settings |-> GetenvOr(s)]
    /\ loaded' = TRUE
    /\ environ' = [s \in Settings |-> {}]   \* it is not read again
    /\ UNCHANGED <<setter, pool>>

\* The checks of a setter.
IsInstantiated == pool.pc = "announced"
MayChange(s) == s \in PoolSettings => ~IsInstantiated
BeginSet(t, s, v) ==
    /\ loaded /\ setter[t] = NoSetter
    /\ v >= Lowest(s) /\ MayChange(s)
    /\ setter' = [setter EXCEPT ![t] = [setting |-> s, value |-> v]]
    /\ UNCHANGED <<environ, inForce, loaded, pool>>

\* Its store.
EndSet(t) ==
    LET c == setter[t]
    IN  /\ c # NoSetter
        /\ inForce' = [inForce EXCEPT ![c.setting] = c.value]
        /\ setter' = [setter EXCEPT ![t] = NoSetter]
        /\ UNCHANGED <<environ, loaded, pool>>

\* MultiReactorPool::MultiReactorPool(), on the first MULTI_POLL read: it reads the number
\* of reactors, initialises libcurl, reads the budget, starts the reactors and announces
\* itself.  An exception leaves no pool, and the next read tries again.
BeginPool ==
    /\ loaded /\ pool.pc = "none"
    /\ pool' = [pool EXCEPT !.pc = "reactors", !.reactors = inForce["reactors"]]
    /\ UNCHANGED <<environ, inForce, loaded, setter>>
ReadBudget ==
    /\ pool.pc = "reactors"
    /\ pool' = [pool EXCEPT !.pc = "requests", !.requests = inForce["requests"]]
    /\ UNCHANGED <<environ, inForce, loaded, setter>>
PoolFails ==
    /\ pool.pc \in {"reactors", "requests"}
    /\ pool' = NoReactorPool
    /\ UNCHANGED <<environ, inForce, loaded, setter>>
AnnouncePool ==
    /\ pool.pc = "requests"
    /\ pool' = [pool EXCEPT !.pc = "announced"]
    /\ UNCHANGED <<environ, inForce, loaded, setter>>

DefaultsNext ==
    \/ LoadDefaults
    \/ \E t \in SetterThreads :
          \/ \E s \in Settings, v \in SetValues : BeginSet(t, s, v)
          \/ EndSet(t)
    \/ BeginPool \/ ReadBudget \/ PoolFails \/ AnnouncePool

DefaultsSpec == DefaultsInit /\ [][DefaultsNext]_defaultsVars

-------------------------------------------------------------------------------
(* Properties.                                                             *)

\* "remote_io_num_reactors cannot be changed after the MULTI_POLL reactor pool has already
\* started": what the getters say of a pool that has started is what it runs with.
PoolFollowsSettings ==
    IsInstantiated => pool.reactors = inForce["reactors"] /\ pool.requests = inForce["requests"]

===============================================================================
