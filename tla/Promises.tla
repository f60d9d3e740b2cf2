------------------------------ MODULE Promises ------------------------------
(***************************************************************************)
(* Callback lists that the program of a page makes itself and deferreds    *)
(* with the lists they are made of.  Both are kept in the same variables,  *)
(* and share nothing in the program: a behaviour follows one of them,      *)
(* which part names, and where JQuery runs another part both are idle.     *)
(***************************************************************************)
EXTENDS Integers, Sequences, FiniteSets

CONSTANTS
    Parts,              \* the parts that are run
    ListFlags,          \* lists that are used alone, with their flags
    Promised,           \* deferreds of the program
    Fn, Value,          \* its functions, and what it fires lists with
    Limit                 \* bound: Limit[part], calls of the program

VARIABLES
    part,
    lists, frames, calls,               \* lists and deferreds
    state, count, todo                  \* deferreds

ASSUME PromisesAssumption ==
    /\ IsFiniteSet(Promised) /\ Promised # {} /\ "when" \notin Promised /\ "pipe" \notin Promised
    /\ \A l \in DOMAIN ListFlags : ListFlags[l] \subseteq {"once", "memory", "unique", "stopOnFalse"}
    /\ Limit["lists"] \in Nat /\ Limit["deferreds"] \in Nat

defOnly == <<state, count, todo>>
listVars == <<lists, frames, calls>>
promiseVars == <<part, listVars, defOnly>>

ListsOf(deferreds) == {<<d, k>> : d \in deferreds, k \in {"done", "fail", "progress"}}
DeferredLists == ListsOf(Promised \cup {"when", "pipe"})

L == INSTANCE Callbacks WITH
        Lists <- DOMAIN ListFlags, Flags <- ListFlags, MaxCalls <- Limit["lists"]
D == INSTANCE Deferred WITH
        Lists <- DeferredLists,
        Flags <- [l \in DeferredLists |->
                     IF l[2] = "progress" THEN {"memory"} ELSE {"once", "memory"}],
        Fn <- {CHOOSE f \in Fn : TRUE}, Part <- Promised, All <- "when", Piped <- "pipe",
        Source <- (CHOOSE d \in Promised : TRUE), MaxCalls <- Limit["deferreds"]

-----------------------------------------------------------------------------
Nothing == <<>>
Runs(p) == part = p
PromisesInit ==
    /\ part \in Parts
    /\ IF Runs("lists") THEN L!ListInit ELSE IF Runs("deferreds") THEN D!DefInit
       ELSE lists = Nothing /\ frames = Nothing /\ calls = 0
    /\ IF Runs("deferreds") THEN TRUE ELSE state = Nothing /\ count = 0 /\ todo = Nothing

ListsStep == Runs("lists") /\ L!ListNext /\ UNCHANGED <<part, defOnly>>
DeferredsStep == Runs("deferreds") /\ D!DefNext /\ UNCHANGED part

PromisesSpec == PromisesInit /\ [][ListsStep \/ DeferredsStep]_promiseVars

-----------------------------------------------------------------------------
(* What must hold: each of these gathers what the module of a part states,  *)
(* and is commented there conjunct by conjunct.                             *)

\* Lists that are changed and fired in their own firing skip no function, call
\* none twice and never stay marked as firing; a deferred calls each handler
\* of its outcome once and no other, and when and pipe follow their parts.
CallbacksSound ==
    /\ Runs("lists") => L!CallsDue /\ L!FiringEnds /\ L!FlagsKept
    /\ Runs("deferreds") =>
          D!DefTypeOK /\ D!CallsDue /\ D!FiringEnds /\ D!HandlersRun /\ D!WhenJoins /\ D!PipeFollows

\* No step settles a deferred again, or lets a settled one tell of progress.
DeferredSteps == [][Runs("deferreds") => D!SettledOnce /\ D!LateProgress]_promiseVars

=============================================================================
