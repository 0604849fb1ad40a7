------------------------------ MODULE RustTask ------------------------------
(***************************************************************************)
(* The asynchronous runtime the generated C# links against                 *)
(* (dotnet/r2CsRuntime/Task.cs): RustTask<T>, the lazy task that stands    *)
(* for a Rust future, its awaiter and method builder, and the TaskWrapper  *)
(* through which a RustTask awaits an ordinary .NET Task.                  *)
(*                                                                         *)
(* Every method runs on some thread and calls other methods, which call    *)
(* back into it (a completion resumes the awaiting body, a cancellation    *)
(* walks down the awaited tasks and up again through their continuations), *)
(* so each thread has a call stack of frames and a step executes one       *)
(* statement of the topmost frame.  Field accesses of different threads    *)
(* interleave freely; each access is sequentially consistent.              *)
(***************************************************************************)
EXTENDS Naturals, Sequences, FiniteSets

CONSTANTS
  Threads,      \* threads of the process: the callers' and the pool's
  Tasks,        \* the RustTask objects, one per call of an async function
  Root,         \* the task that hand-written C# awaits
  Parent,       \* the task whose body awaits a task (Tasks \ {Root} -> Tasks)
  Leaves,       \* tasks made by RustTask.FromTaskWithCancellationToken
  Cancellable,  \* the tasks hand-written C# may call Cancel on
  CancelCreated,\* may Cancel be called before the task was first awaited
  Client,       \* the hand-written async C# method that awaits Root
  Wrapper,      \* the TaskWrapper a leaf awaits
  None          \* null

ASSUME TreeAssumption ==
  /\ Root \in Tasks
  /\ Parent \in [Tasks \ {Root} -> Tasks]
  /\ \A t \in Tasks \ {Root} : Parent[t] # t
  /\ Leaves \subseteq Tasks
  /\ \A t \in Tasks \ {Root} : Parent[t] \notin Leaves
  /\ Cancellable \subseteq Tasks
  /\ CancelCreated \in BOOLEAN

ASSUME NamesAssumption ==
  /\ Client \notin Tasks
  /\ Wrapper \notin Tasks \cup {Client}
  /\ None \notin Tasks \cup {Client, Wrapper}

\* A task is made by a body that runs: every chain of awaiters ends at Root.
ASSUME RootedAssumption ==
  \A S \in SUBSET (Tasks \ {Root}) : S # {} => \E t \in S : Parent[t] \notin S

VARIABLES
  (* fields of RustTask<T> *)
  state,             \* State
  stateMachine,      \* StateMachine # null
  onCompleted,       \* _onCompleted # null
  awaitingTask,      \* _awaitingTaskAwaiter: a task, the wrapper, or None
  (* the compiler-generated state machine of each async body *)
  body,              \* where the body stands between two calls of MoveNext
  todo,              \* what the body may still await (each at most once)
  (* fields of TaskWrapper, and the .NET Task under it *)
  underlying,        \* the .NET Task that action(token) returned
  callback,          \* the wrapper's OnCompleted, as a continuation of it
  cts,               \* _cts.IsCancellationRequested
  continuation,      \* _continuation # null
  (* the threads *)
  stack,             \* call stack, the running frame last
  raised,            \* an InvalidOperationException is unwinding the stack
  entry,             \* what called into the runtime on this thread
  (* what went wrong, and what the environment did *)
  cancelCalls,       \* the tasks on which Cancel was called from outside
  escaped,           \* where an exception left the runtime: "cancel", "pool"
  reentered          \* bodies whose MoveNext was called while not suspended

taskVars    == <<state, stateMachine, onCompleted, awaitingTask>>
bodyVars    == <<body, todo>>
wrapperVars == <<underlying, callback, cts, continuation>>
ghostVars   == <<cancelCalls, escaped, reentered>>
vars == <<taskVars, bodyVars, wrapperVars, stack, raised, entry, ghostVars>>

Terminal  == {"CompletedSuccessfully", "Failed", "Cancelled"}
TaskState == {"Created", "Running"} \cup Terminal

Bodies     == Tasks \cup {Client}

\* The async method whose body awaits t.
Awaiter(t) == IF t = Root THEN Client ELSE Parent[t]

\* What the body b awaits: a leaf its wrapper, any other body the tasks made
\* by the async functions it calls.
Awaitable(b) == IF b \in Leaves THEN {Wrapper}
                                ELSE {t \in Tasks : Awaiter(t) = b}

(***************************************************************************)
(* Frames.  A frame is one activation of a method: where it stands, whose  *)
(* body, task or wrapper it runs for, and its argument (the awaited task   *)
(* or wrapper, the exception, the outcome being published).                *)
(***************************************************************************)
StartPC  == {"getAwaiter", "startTask", "runTask"}
AwaitPC  == {"isCompleted", "awaitOnCompleted", "register", "getResult"}
TaskPC   == {"clear", "notify", "cancel", "cancelMachine", "cancelSet",
             "cancelInner", "cancelCheck", "cancelNotify"}
LeafPC   == {"leafCheck", "wrap", "wrapperCancel", "wrapperOnCompleted",
             "wrapperTake"}
Exceptions == {"RustCancellationException", "ReturnException", "Error"}

\* null is not an exception.
ASSUME NullAssumption == None \notin Exceptions

Frames ==
       [pc : {"body", "resume", "setResult"}, task : Bodies, arg : {None}]
  \cup {f \in [pc : StartPC, task : Bodies, arg : Tasks] :
          f.arg \in Awaitable(f.task)}
  \cup {f \in [pc : AwaitPC, task : Bodies, arg : Tasks \cup {Wrapper}] :
          f.arg \in Awaitable(f.task)}
  \cup [pc : {"setException"}, task : Bodies, arg : Exceptions]
  \cup [pc : {"publish"}, task : Tasks, arg : {"CompletedSuccessfully", "Failed"}]
  \cup [pc : TaskPC, task : Tasks, arg : {None}]
  \cup [pc : LeafPC, task : Leaves, arg : {None}]

Frame(pc, t, a) == [pc |-> pc, task |-> t, arg |-> a]

Top(th)    == stack[th][Len(stack[th])]
Below(th)  == SubSeq(stack[th], 1, Len(stack[th]) - 1)
At(th, pc) == stack[th] # <<>> /\ ~raised[th] /\ Top(th).pc = pc
Idle(th)   == stack[th] = <<>> /\ ~raised[th]

\* The running method goes on at f, calls g and goes on at f, or returns.
Goto(th, f)    == stack' = [stack EXCEPT ![th] = Append(Below(th), f)]
Call(th, f, g) == stack' = [stack EXCEPT ![th] = Append(Append(Below(th), f), g)]
Return(th)     == stack' = [stack EXCEPT ![th] = Below(th)]

\* An exception inside the try block of MoveNext reaches builder.SetException;
\* one outside of it unwinds the stack.
Catch(th, e) == Goto(th, Frame("setException", Top(th).task, e))
Raise(th)    == Return(th) /\ raised' = [raised EXCEPT ![th] = TRUE]
-----------------------------------------------------------------------------
(***************************************************************************)
(* Faulty variants of operators defined below, named after the mistake.    *)
(* Each is told from the code by one of the properties at the end.         *)
(***************************************************************************)

\* IsCompleted forgets the tasks that ended otherwise than with a result.
OnlySuccessCompleted(b, u) ==
  IF u = Wrapper THEN underlying[b] # "pending" \/ cts[b]
                 ELSE state[u] = "CompletedSuccessfully"

\* IsCompleted takes a started task for a completed one.
StartedIsCompleted(b, u) ==
  IF u = Wrapper THEN underlying[b] # "pending" \/ cts[b]
                 ELSE state[u] # "Created"

\* GetResult reports a failure as a cancellation.
FailureAsCancellation(b, u) ==
  IF u = Wrapper
    THEN IF underlying[b] = "done" THEN None ELSE "Error"
    ELSE IF state[u] = "CompletedSuccessfully" THEN None
                                               ELSE "RustCancellationException"

\* OnCompleted runs the continuation itself when the task has completed.
RegisterAndRun(th) ==
  LET b == Top(th).task  u == Top(th).arg IN
  /\ At(th, "register")
  /\ IF u = Wrapper
       THEN /\ continuation' = [continuation EXCEPT ![b] = TRUE]
            /\ Return(th) /\ UNCHANGED onCompleted
       ELSE /\ onCompleted' = [onCompleted EXCEPT ![u] = TRUE]
            /\ IF state[u] \in Terminal THEN Goto(th, Frame("resume", b, None))
                                        ELSE Return(th)
            /\ UNCHANGED continuation
  /\ UNCHANGED <<state, stateMachine, awaitingTask, bodyVars, underlying,
                 callback, cts, raised, entry, ghostVars>>

\* AwaitOnCompleted forgets which task is awaited.
AwaitedForgotten(th) ==
  LET b == Top(th).task  u == Top(th).arg IN
  /\ At(th, "awaitOnCompleted")
  /\ body' = [body EXCEPT ![b] = "suspended"]
  /\ Goto(th, Frame("register", b, u))
  /\ UNCHANGED <<taskVars, todo, wrapperVars, raised, entry, ghostVars>>

\* SetResult drops the state machine before it sets State.
ClearFirst(th) ==
  LET t == Top(th).task IN
  /\ At(th, "setResult") /\ t \in Tasks
  /\ body' = [body EXCEPT ![t] = "ended"]
  /\ Goto(th, Frame("clear", t, None))
  /\ UNCHANGED <<taskVars, todo, wrapperVars, raised, entry, ghostVars>>

\* SetResult calls the continuation before it sets State.
NotifyFirst(th) ==
  LET t == Top(th).task IN
  /\ At(th, "setResult") /\ t \in Tasks
  /\ body' = [body EXCEPT ![t] = "ended"]
  /\ Call(th, Frame("publish", t, "CompletedSuccessfully"), Frame("notify", t, None))
  /\ UNCHANGED <<taskVars, todo, wrapperVars, raised, entry, ghostVars>>

\* SetException treats a cancellation as any other exception.
FailOnCancellation(th) ==
  LET t == Top(th).task IN
  /\ At(th, "setException") /\ t \in Tasks
  /\ body' = [body EXCEPT ![t] = "ended"]
  /\ Goto(th, Frame("publish", t, "Failed"))
  /\ UNCHANGED <<taskVars, todo, wrapperVars, raised, entry, ghostVars>>

\* A failed task is published as a cancelled one.
PublishCancelled(th) ==
  LET t == Top(th).task IN
  /\ At(th, "publish")
  /\ state' = [state EXCEPT ![t] = IF Top(th).arg = "Failed" THEN "Cancelled"
                                                            ELSE Top(th).arg]
  /\ Goto(th, Frame("clear", t, None))
  /\ UNCHANGED <<stateMachine, onCompleted, awaitingTask, bodyVars, wrapperVars,
                 raised, entry, ghostVars>>

\* Cancel does not call the continuation.
NoCallOnCancel(th) ==
  LET t == Top(th).task IN
  /\ At(th, "notify") \/ At(th, "cancelNotify")
  /\ IF At(th, "notify") /\ onCompleted[t]
       THEN Goto(th, Frame("resume", Awaiter(t), None))
       ELSE Return(th)
  /\ UNCHANGED <<taskVars, bodyVars, wrapperVars, raised, entry, ghostVars>>

\* Cancel does not look whether the task has completed.
CancelUnchecked(th) ==
  LET t == Top(th).task IN
  /\ At(th, "cancel")
  /\ Goto(th, Frame("cancelMachine", t, None))
  /\ UNCHANGED <<taskVars, bodyVars, wrapperVars, raised, entry, ghostVars>>

\* Cancel stops at a task that awaits a .NET Task.
CancelSkipsWrapper(th) ==
  LET t == Top(th).task  check == Frame("cancelCheck", t, None) IN
  /\ At(th, "cancelInner")
  /\ IF awaitingTask[t] \in Tasks
       THEN Call(th, check, Frame("cancel", awaitingTask[t], None))
       ELSE Goto(th, check)
  /\ UNCHANGED <<taskVars, bodyVars, wrapperVars, raised, entry, ghostVars>>

-----------------------------------------------------------------------------
Init ==
  /\ state = [t \in Tasks |-> "Created"]
  /\ stateMachine = [t \in Tasks |-> TRUE]
  /\ onCompleted = [t \in Tasks |-> FALSE]
  /\ awaitingTask = [b \in Bodies |-> None]
  /\ body = [b \in Bodies |-> "fresh"]
  /\ todo = [b \in Bodies |-> Awaitable(b)]
  /\ underlying = [l \in Leaves |-> "none"]
  /\ callback = [l \in Leaves |-> "none"]
  /\ cts = [l \in Leaves |-> FALSE]
  /\ continuation = [l \in Leaves |-> FALSE]
  /\ stack = [th \in Threads |-> <<>>]
  /\ raised = [th \in Threads |-> FALSE]
  /\ entry = [th \in Threads |-> "none"]
  /\ cancelCalls = {}
  /\ escaped = {}
  /\ reentered = {}
-----------------------------------------------------------------------------
(* Calls into the runtime, each on a thread that runs nothing else.        *)

Enter(th, f, from) ==
  /\ Idle(th)
  /\ stack' = [stack EXCEPT ![th] = <<f>>]
  /\ entry' = [entry EXCEPT ![th] = from]
  /\ UNCHANGED raised

\* The hand-written method starts and is going to await Root.
ClientStart(th) ==
  /\ body[Client] = "fresh"
  /\ body' = [body EXCEPT ![Client] = "running"]
  /\ Enter(th, Frame("body", Client, None), "client")
  /\ UNCHANGED <<taskVars, todo, wrapperVars, ghostVars>>

\* Hand-written C# cancels a task (once per task: bounds the model).
ClientCancel(th, t) ==
  /\ t \notin cancelCalls
  /\ CancelCreated \/ state[t] # "Created"
  /\ cancelCalls' = cancelCalls \cup {t}
  /\ Enter(th, Frame("cancel", t, None), "cancel")
  /\ UNCHANGED <<taskVars, bodyVars, wrapperVars, escaped, reentered>>

\* The .NET Task under leaf l completes on a thread of its own and runs the
\* continuation the wrapper registered, if it did.
UnderlyingCompletes(th, l) ==
  /\ underlying[l] = "pending"
  /\ \E outcome \in {"done", "faulted"} :
       underlying' = [underlying EXCEPT ![l] = outcome]
  /\ IF callback[l] = "registered"
       THEN /\ callback' = [callback EXCEPT ![l] = "fired"]
            /\ Enter(th, Frame("wrapperOnCompleted", l, None), "pool")
       ELSE /\ Idle(th)
            /\ UNCHANGED <<callback, stack, raised, entry>>
  /\ UNCHANGED <<taskVars, bodyVars, cts, continuation, ghostVars>>

\* A continuation registered after the completion is queued to the pool.
RunQueuedCallback(th, l) ==
  /\ callback[l] = "queued"
  /\ callback' = [callback EXCEPT ![l] = "fired"]
  /\ Enter(th, Frame("wrapperOnCompleted", l, None), "pool")
  /\ UNCHANGED <<taskVars, bodyVars, underlying, cts, continuation, ghostVars>>
-----------------------------------------------------------------------------
(* The body of an async method, between two of its awaits.                 *)

\* It awaits one more task, by value: no task is awaited twice.
BodyAwaits(th) ==
  LET b == Top(th).task IN
  /\ At(th, "body")
  /\ b \notin Leaves
  /\ \E u \in todo[b] :
       /\ todo' = [todo EXCEPT ![b] = @ \ {u}]
       /\ Goto(th, Frame("getAwaiter", b, u))
  /\ UNCHANGED <<taskVars, body, wrapperVars, raised, entry, ghostVars>>

\* It returns.  Tasks it created and never awaited stay unstarted.
BodyReturns(th) ==
  LET b == Top(th).task IN
  /\ At(th, "body")
  /\ b \in Leaves \cup {Client} => todo[b] = {}
  /\ Goto(th, Frame("setResult", b, None))
  /\ UNCHANGED <<taskVars, bodyVars, wrapperVars, raised, entry, ghostVars>>

\* It throws: a panic, or the exception that carries a value returned from
\* inside an expression (Helpers.Returns).
BodyThrows(th) ==
  LET b == Top(th).task IN
  /\ At(th, "body")
  /\ b \in Tasks \ Leaves
  /\ \E e \in {"ReturnException", "Error"} : Catch(th, e)
  /\ UNCHANGED <<taskVars, bodyVars, wrapperVars, raised, entry, ghostVars>>

\* FromTaskWithCancellationToken calls action(cts.Token), which throws or
\* returns a .NET Task, completed or not.
LeafCallsAction(th) ==
  LET l == Top(th).task IN
  /\ At(th, "body")
  /\ l \in Leaves /\ todo[l] = {Wrapper}
  /\ todo' = [todo EXCEPT ![l] = {}]
  /\ \/ Catch(th, "Error") /\ UNCHANGED underlying
     \/ \E outcome \in {"pending", "done", "faulted"} :
          /\ underlying' = [underlying EXCEPT ![l] = outcome]
          /\ Goto(th, Frame("leafCheck", l, None))
  /\ UNCHANGED <<taskVars, body, callback, cts, continuation, raised, entry,
                 ghostVars>>

\* awaiter.IsCompleted: return awaiter.GetResult(), or go and wrap it.
LeafChecks(th) ==
  LET l == Top(th).task IN
  /\ At(th, "leafCheck")
  /\ \/ underlying[l] = "done" /\ Goto(th, Frame("setResult", l, None))
     \/ underlying[l] = "faulted" /\ Catch(th, "Error")
     \/ underlying[l] = "pending" /\ Goto(th, Frame("wrap", l, None))
  /\ UNCHANGED <<taskVars, bodyVars, wrapperVars, raised, entry, ghostVars>>

\* The constructor of TaskWrapper registers its OnCompleted with the Task.
WrapperCreated(th) ==
  LET l == Top(th).task IN
  /\ At(th, "wrap")
  /\ callback' = [callback EXCEPT ![l] =
       IF underlying[l] = "pending" THEN "registered" ELSE "queued"]
  /\ Goto(th, Frame("isCompleted", l, Wrapper))
  /\ UNCHANGED <<taskVars, bodyVars, underlying, cts, continuation, raised,
                 entry, ghostVars>>
-----------------------------------------------------------------------------
(* await u, in the body b: u.GetAwaiter(), awaiter.IsCompleted and either  *)
(* awaiter.GetResult() or builder.AwaitOnCompleted(...).                   *)

GetAwaiter(th) ==
  LET b == Top(th).task  u == Top(th).arg IN
  /\ At(th, "getAwaiter")
  /\ Goto(th, Frame(IF state[u] = "Created" THEN "startTask" ELSE "isCompleted",
                    b, u))
  /\ UNCHANGED <<taskVars, bodyVars, wrapperVars, raised, entry, ghostVars>>

\* The two checks of StartTask.
StartTask(th) ==
  LET b == Top(th).task  u == Top(th).arg IN
  /\ At(th, "startTask")
  /\ IF stateMachine[u] /\ state[u] = "Created"
       THEN Goto(th, Frame("runTask", b, u))
       ELSE Catch(th, "Error")
  /\ UNCHANGED <<taskVars, bodyVars, wrapperVars, raised, entry, ghostVars>>

\* State = Running and the first MoveNext, on the awaiting thread.
RunTask(th) ==
  LET b == Top(th).task  u == Top(th).arg IN
  /\ At(th, "runTask")
  /\ state' = [state EXCEPT ![u] = "Running"]
  /\ body' = [body EXCEPT ![u] = "running"]
  /\ Call(th, Frame("isCompleted", b, u), Frame("body", u, None))
  /\ UNCHANGED <<stateMachine, onCompleted, awaitingTask, todo, wrapperVars,
                 raised, entry, ghostVars>>

\* RustTask.IsCompleted, or TaskWrapper.IsCompleted for a leaf.
Completed(b, u) ==
  IF u = Wrapper THEN underlying[b] # "pending" \/ cts[b]
                 ELSE state[u] \in Terminal

IsCompleted(th) ==
  LET b == Top(th).task  u == Top(th).arg IN
  /\ At(th, "isCompleted")
  /\ Goto(th, Frame(IF Completed(b, u) THEN "getResult" ELSE "awaitOnCompleted",
                    b, u))
  /\ UNCHANGED <<taskVars, bodyVars, wrapperVars, raised, entry, ghostVars>>

\* The state machine stores where it stands, _awaitingTaskAwaiter is set.
\* It is never cleared again.
AwaitOnCompleted(th) ==
  LET b == Top(th).task  u == Top(th).arg IN
  /\ At(th, "awaitOnCompleted")
  /\ awaitingTask' = [awaitingTask EXCEPT ![b] = u]
  /\ body' = [body EXCEPT ![b] = "suspended"]
  /\ Goto(th, Frame("register", b, u))
  /\ UNCHANGED <<state, stateMachine, onCompleted, todo, wrapperVars, raised,
                 entry, ghostVars>>

\* awaiter.OnCompleted(MoveNext), and MoveNext returns.  A task refuses a
\* second continuation, and neither looks whether the awaited completed.
Register(th) ==
  LET b == Top(th).task  u == Top(th).arg IN
  /\ At(th, "register")
  /\ IF u = Wrapper
       THEN /\ continuation' = [continuation EXCEPT ![b] = TRUE]
            /\ Return(th) /\ UNCHANGED onCompleted
       ELSE /\ IF onCompleted[u] THEN Catch(th, "Error") ELSE Return(th)
            /\ onCompleted' = [onCompleted EXCEPT ![u] = TRUE]
            /\ UNCHANGED continuation
  /\ UNCHANGED <<state, stateMachine, awaitingTask, bodyVars, underlying,
                 callback, cts, raised, entry, ghostVars>>

\* A continuation calls MoveNext.  On a body that is not suspended the state
\* machine would run from its beginning again: recorded, not followed.
Resume(th) ==
  LET b == Top(th).task IN
  /\ At(th, "resume")
  /\ IF body[b] = "suspended"
       THEN /\ body' = [body EXCEPT ![b] = "running"]
            /\ Goto(th, Frame("getResult", b, awaitingTask[b]))
            /\ UNCHANGED reentered
       ELSE /\ reentered' = reentered \cup {b}
            /\ Return(th)
            /\ UNCHANGED body
  /\ UNCHANGED <<taskVars, todo, wrapperVars, raised, entry, cancelCalls,
                 escaped>>

\* RustTask.GetResult, or TaskWrapper.GetResult for a leaf (which blocks in
\* the .NET awaiter while the Task is pending).
Result(b, u) ==
  CASE u = Wrapper /\ cts[b] -> "RustCancellationException"
    [] u = Wrapper /\ ~cts[b] -> IF underlying[b] = "done" THEN None ELSE "Error"
    [] u # Wrapper -> CASE state[u] = "CompletedSuccessfully" -> None
                        [] state[u] = "Cancelled" -> "RustCancellationException"
                        [] OTHER -> "Error"

GetResult(th) ==
  LET b == Top(th).task  u == Top(th).arg IN
  /\ At(th, "getResult")
  /\ u = Wrapper => cts[b] \/ underlying[b] # "pending"
  /\ IF Result(b, u) = None THEN Goto(th, Frame("body", b, None))
                            ELSE Catch(th, Result(b, u))
  /\ UNCHANGED <<taskVars, bodyVars, wrapperVars, raised, entry, ghostVars>>
-----------------------------------------------------------------------------
(* The end of MoveNext: builder.SetResult or builder.SetException.         *)

\* The client is an ordinary .NET async method: it takes either outcome.
ClientEnds(th) ==
  /\ At(th, "setResult") \/ At(th, "setException")
  /\ Top(th).task = Client
  /\ body' = [body EXCEPT ![Client] = "ended"]
  /\ Return(th)
  /\ UNCHANGED <<taskVars, todo, wrapperVars, raised, entry, ghostVars>>

SetResult(th) ==
  LET t == Top(th).task IN
  /\ At(th, "setResult") /\ t \in Tasks
  /\ body' = [body EXCEPT ![t] = "ended"]
  /\ IF state[t] = "Running"
       THEN /\ Goto(th, Frame("publish", t, "CompletedSuccessfully"))
            /\ UNCHANGED raised
       ELSE Raise(th)
  /\ UNCHANGED <<taskVars, todo, wrapperVars, entry, ghostVars>>

\* A cancellation only clears the machine of a cancelled task, and its
\* Cancel calls the continuation; a returned value is a result; anything
\* else fails the task.
SetException(th) ==
  LET t == Top(th).task  e == Top(th).arg IN
  /\ At(th, "setException") /\ t \in Tasks
  /\ body' = [body EXCEPT ![t] = "ended"]
  /\ \/ /\ e = "RustCancellationException" /\ state[t] = "Cancelled"
        /\ stateMachine' = [stateMachine EXCEPT ![t] = FALSE]
        /\ Return(th)
        /\ UNCHANGED raised
     \/ /\ e = "RustCancellationException" /\ state[t] # "Cancelled"
        /\ Raise(th)
        /\ UNCHANGED stateMachine
     \/ /\ e = "ReturnException"
        /\ Goto(th, Frame("setResult", t, None))
        /\ UNCHANGED <<stateMachine, raised>>
     \/ /\ e = "Error" /\ state[t] = "Running"
        /\ Goto(th, Frame("publish", t, "Failed"))
        /\ UNCHANGED <<stateMachine, raised>>
     \/ /\ e = "Error" /\ state[t] # "Running"
        /\ Raise(th)
        /\ UNCHANGED stateMachine
  /\ UNCHANGED <<state, onCompleted, awaitingTask, todo, wrapperVars, entry,
                 ghostVars>>

\* Result or Exception, then State.
Publish(th) ==
  LET t == Top(th).task IN
  /\ At(th, "publish")
  /\ state' = [state EXCEPT ![t] = Top(th).arg]
  /\ Goto(th, Frame("clear", t, None))
  /\ UNCHANGED <<stateMachine, onCompleted, awaitingTask, bodyVars, wrapperVars,
                 raised, entry, ghostVars>>

ClearStateMachine(th) ==
  LET t == Top(th).task IN
  /\ At(th, "clear")
  /\ stateMachine' = [stateMachine EXCEPT ![t] = FALSE]
  /\ Goto(th, Frame("notify", t, None))
  /\ UNCHANGED <<state, onCompleted, awaitingTask, bodyVars, wrapperVars,
                 raised, entry, ghostVars>>

\* RunCallOnCompleted, the last call of SetResult, SetException and Cancel:
\* it runs the awaiting body on this thread.
RunCallOnCompleted(th) ==
  LET t == Top(th).task IN
  /\ At(th, "notify") \/ At(th, "cancelNotify")
  /\ IF onCompleted[t] THEN Goto(th, Frame("resume", Awaiter(t), None))
                       ELSE Return(th)
  /\ UNCHANGED <<taskVars, bodyVars, wrapperVars, raised, entry, ghostVars>>
-----------------------------------------------------------------------------
(* RustTask.Cancel and TaskWrapper.Cancel.                                 *)

Cancel(th) ==
  LET t == Top(th).task IN
  /\ At(th, "cancel")
  /\ IF state[t] \in Terminal THEN Return(th)
                              ELSE Goto(th, Frame("cancelMachine", t, None))
  /\ UNCHANGED <<taskVars, bodyVars, wrapperVars, raised, entry, ghostVars>>

\* StateMachine is read later than State: the task may have ended meanwhile.
CancelNeedsMachine(th) ==
  LET t == Top(th).task IN
  /\ At(th, "cancelMachine")
  /\ IF stateMachine[t]
       THEN Goto(th, Frame("cancelSet", t, None)) /\ UNCHANGED raised
       ELSE Raise(th)
  /\ UNCHANGED <<taskVars, bodyVars, wrapperVars, entry, ghostVars>>

CancelSetsState(th) ==
  LET t == Top(th).task IN
  /\ At(th, "cancelSet")
  /\ state' = [state EXCEPT ![t] = "Cancelled"]
  /\ Goto(th, Frame("cancelInner", t, None))
  /\ UNCHANGED <<stateMachine, onCompleted, awaitingTask, bodyVars, wrapperVars,
                 raised, entry, ghostVars>>

\* _awaitingTaskAwaiter?.Cancel(), through RustAwaiter or the TaskWrapper.
CancelInner(th) ==
  LET t == Top(th).task  check == Frame("cancelCheck", t, None) IN
  /\ At(th, "cancelInner")
  /\ \/ awaitingTask[t] = None /\ Goto(th, check)
     \/ awaitingTask[t] \in Tasks
          /\ Call(th, check, Frame("cancel", awaitingTask[t], None))
     \/ awaitingTask[t] = Wrapper
          /\ Call(th, check, Frame("wrapperCancel", t, None))
  /\ UNCHANGED <<taskVars, bodyVars, wrapperVars, raised, entry, ghostVars>>

\* The state machine must have run to its end meanwhile.
CancelChecks(th) ==
  LET t == Top(th).task IN
  /\ At(th, "cancelCheck")
  /\ IF stateMachine[t]
       THEN Raise(th)
       ELSE Goto(th, Frame("cancelNotify", t, None)) /\ UNCHANGED raised
  /\ UNCHANGED <<taskVars, bodyVars, wrapperVars, entry, ghostVars>>

\* _cts.Cancel() runs the token's callbacks on this thread, and one of them
\* may complete the .NET Task, whose continuation then runs here too.
WrapperCancel(th) ==
  LET l == Top(th).task  onDone == Frame("wrapperOnCompleted", l, None) IN
  /\ At(th, "wrapperCancel")
  /\ cts' = [cts EXCEPT ![l] = TRUE]
  /\ \/ /\ Goto(th, onDone)
        /\ UNCHANGED <<underlying, callback>>
     \/ /\ underlying[l] = "pending" /\ callback[l] = "registered"
        /\ \E outcome \in {"done", "faulted"} :
             underlying' = [underlying EXCEPT ![l] = outcome]
        /\ callback' = [callback EXCEPT ![l] = "fired"]
        /\ Call(th, onDone, onDone)
  /\ UNCHANGED <<taskVars, bodyVars, continuation, raised, entry, ghostVars>>

\* TaskWrapper.OnCompleted(): read _continuation, ...
WrapperOnCompleted(th) ==
  LET l == Top(th).task IN
  /\ At(th, "wrapperOnCompleted")
  /\ IF continuation[l] THEN Goto(th, Frame("wrapperTake", l, None))
                        ELSE Return(th)
  /\ UNCHANGED <<taskVars, bodyVars, wrapperVars, raised, entry, ghostVars>>

\* ... set it to null and invoke what was read.
WrapperTakes(th) ==
  LET l == Top(th).task IN
  /\ At(th, "wrapperTake")
  /\ continuation' = [continuation EXCEPT ![l] = FALSE]
  /\ Goto(th, Frame("resume", l, None))
  /\ UNCHANGED <<taskVars, bodyVars, underlying, callback, cts, raised, entry,
                 ghostVars>>
-----------------------------------------------------------------------------
(* An exception raised outside the try block of MoveNext unwinds.          *)

Unwinding(th) == raised[th] /\ stack[th] # <<>>

\* A body that was starting the task catches it.
UnwindToBody(th) ==
  /\ Unwinding(th)
  /\ Top(th).pc = "isCompleted"
  /\ raised' = [raised EXCEPT ![th] = FALSE]
  /\ Catch(th, "Error")
  /\ UNCHANGED <<taskVars, bodyVars, wrapperVars, entry, ghostVars>>

\* A Cancel of an awaiting task passes it on.  (No continuation that runs
\* inside _cts.Cancel() throws: its task was cancelled just before.)
UnwindThrough(th) ==
  /\ Unwinding(th)
  /\ Top(th).pc # "isCompleted"
  /\ Return(th)
  /\ UNCHANGED <<taskVars, bodyVars, wrapperVars, raised, entry, ghostVars>>

\* It reaches the caller of Cancel, or the thread pool, where it ends the
\* process.
UnwindOut(th) ==
  /\ raised[th] /\ stack[th] = <<>>
  /\ raised' = [raised EXCEPT ![th] = FALSE]
  /\ escaped' = escaped \cup {entry[th]}
  /\ UNCHANGED <<taskVars, bodyVars, wrapperVars, stack, entry, cancelCalls,
                 reentered>>
-----------------------------------------------------------------------------
Step(th) ==
  \/ BodyAwaits(th) \/ BodyReturns(th) \/ BodyThrows(th)
  \/ LeafCallsAction(th) \/ LeafChecks(th) \/ WrapperCreated(th)
  \/ GetAwaiter(th) \/ StartTask(th) \/ RunTask(th) \/ IsCompleted(th)
  \/ AwaitOnCompleted(th) \/ Register(th) \/ Resume(th) \/ GetResult(th)
  \/ ClientEnds(th) \/ SetResult(th) \/ SetException(th) \/ Publish(th)
  \/ ClearStateMachine(th) \/ RunCallOnCompleted(th)
  \/ Cancel(th) \/ CancelNeedsMachine(th) \/ CancelSetsState(th)
  \/ CancelInner(th) \/ CancelChecks(th)
  \/ WrapperCancel(th) \/ WrapperOnCompleted(th) \/ WrapperTakes(th)
  \/ UnwindToBody(th) \/ UnwindThrough(th)
  \/ UnwindOut(th)

External(th) ==
  \E l \in Leaves : UnderlyingCompletes(th, l) \/ RunQueuedCallback(th, l)

Next ==
  \E th \in Threads :
    \/ Step(th)
    \/ External(th)
    \/ ClientStart(th)
    \/ \E t \in Cancellable : ClientCancel(th, t)

\* A thread that runs something goes on, every .NET Task completes (as the
\* test's InnerTaskSource does) and the client comes to await Root.  Nobody
\* has to cancel.
Fairness ==
  /\ \A th \in Threads : WF_vars(Step(th))
  /\ WF_vars(\E th \in Threads : External(th))
  /\ WF_vars(\E th \in Threads : ClientStart(th))

Spec == Init /\ [][Next]_vars
FairSpec == Spec /\ Fairness
-----------------------------------------------------------------------------
(* Properties.                                                             *)

\* Type correctness of every field, machine, wrapper and call stack.
TypeOK ==
  /\ state \in [Tasks -> TaskState]
  /\ stateMachine \in [Tasks -> BOOLEAN]
  /\ onCompleted \in [Tasks -> BOOLEAN]
  /\ awaitingTask \in [Bodies -> Tasks \cup {Wrapper, None}]
  /\ body \in [Bodies -> {"fresh", "running", "suspended", "ended"}]
  /\ todo \in [Bodies -> SUBSET (Tasks \cup {Wrapper})]
  /\ \A b \in Bodies :
       /\ todo[b] \subseteq Awaitable(b)
       /\ awaitingTask[b] \in Awaitable(b) \cup {None}
       /\ body[b] = "suspended" => awaitingTask[b] # None
  /\ underlying \in [Leaves -> {"none", "pending", "done", "faulted"}]
  /\ callback \in [Leaves -> {"none", "registered", "queued", "fired"}]
  /\ cts \in [Leaves -> BOOLEAN]
  /\ continuation \in [Leaves -> BOOLEAN]
  /\ stack \in [Threads -> Seq(Frames)]
  /\ raised \in [Threads -> BOOLEAN]
  /\ entry \in [Threads -> {"none", "client", "cancel", "pool"}]
  /\ cancelCalls \subseteq Cancellable
  /\ escaped \subseteq {"client", "cancel", "pool", "none"}
  /\ reentered \subseteq Bodies

Quiet == \A th \in Threads : Idle(th)

\* RustTaskTest.RunSuccessfully: completing the inner task completes the outer.
\* When no thread runs anything, a body that is suspended waits for something
\* that has not happened and that will resume it: a running task that knows
\* its continuation, or a .NET Task whose callback finds the continuation.
NoLostWakeup ==
  Quiet => \A b \in Bodies : body[b] = "suspended" =>
    IF awaitingTask[b] = Wrapper
      THEN /\ continuation[b] /\ ~cts[b]
           /\ \/ underlying[b] = "pending" /\ callback[b] = "registered"
              \/ callback[b] = "queued"
      ELSE state[awaitingTask[b]] = "Running" /\ onCompleted[awaitingTask[b]]

\* RustTaskTest.Cancel: when a Cancel of Root has run, every task that was
\* started below it has ended with its state machine dropped, and every .NET
\* Task still pending has its token cancelled.
CancelReachesLeaves ==
  Quiet /\ state[Root] = "Cancelled" =>
    /\ \A t \in Tasks : state[t] # "Created" =>
         state[t] \in Terminal /\ ~stateMachine[t]
    /\ \A l \in Leaves : underlying[l] = "pending" => cts[l]

\* A cancellation flows from the awaiting task to the awaited one: a task is
\* cancelled because its Cancel was called or its awaiter's task was.
CancelFlowsDown ==
  \A t \in Tasks : state[t] = "Cancelled" =>
    t \in cancelCalls \/ (t # Root /\ state[Awaiter(t)] = "Cancelled")

\* A task does not outlive the task that awaits it: the awaiting task leaves
\* Running only by a Cancel while the awaited one runs, and an awaited task
\* is not run before its awaiter.
AwaitedEndsFirst ==
  \A t \in Tasks \ {Root} :
    state[t] = "Running" => state[Awaiter(t)] \in {"Running", "Cancelled"}

\* MoveNext is called on suspended bodies only: no continuation runs twice,
\* and none while its body runs on another thread.
NoReentry == reentered = {}

\* No exception leaves the runtime, neither to the caller of Cancel nor to
\* the pool: the checks of Task.cs against impossible states never fail.
NoEscape == escaped = {}

\* "Nothing to do if completed or canceled" (Cancel), "Task is not running"
\* (SetResult): a task that has ended stays as it ended.
TerminalIsFinal ==
  [][\A t \in Tasks : state[t] \in Terminal => state'[t] = state[t]]_vars

\* "Task is not initialized" (Cancel, StartTask): the state machine of a task
\* is dropped only once its state says how it ended, and a task whose machine
\* is gone is never started again.  So that check can fail in Cancel only when
\* the task ended between the two reads, and no task is left unable to run.
MachineKeptWhileRunning ==
  \A t \in Tasks : ~stateMachine[t] => state[t] \in Terminal

\* Root and its client implement the abstract future.
AbstractFuture == INSTANCE Future WITH
  phase  <- state[Root],
  waiter <- CASE body[Client] = "fresh" -> "fresh"
              [] body[Client] = "ended" -> "served"
              [] OTHER -> "awaiting"

\* The task that the client awaits starts lazily, settles once, and its
\* client is served once it settled, whatever the interleaving.
ImplementsFuture == AbstractFuture!Spec

\* Its safety half: what the client is never shown, settled or not yet, even
\* where completions race the awaits and a wakeup may be lost.
NeverMisleads == AbstractFuture!Safety
-----------------------------------------------------------------------------
(***************************************************************************)
(* The inductive invariant behind MachineKeptWhileRunning: a body runs     *)
(* only after its task was started, and a task is started once.            *)
(***************************************************************************)

\* The program counters of a frame that executes (or is about to resume) the
\* body of its task.
RunPC == {"resume", "body", "leafCheck", "wrap", "wrapperTake", "setResult",
          "setException", "publish", "clear", "notify"} \cup StartPC \cup AwaitPC

StartedOnce ==
  \A t1, t2 \in Threads :
    \A i \in 1 .. Len(stack[t1]), j \in 1 .. Len(stack[t2]) :
      /\ stack[t1][i].pc \in StartPC /\ stack[t2][j].pc \in StartPC
      /\ stack[t1][i].arg = stack[t2][j].arg
      => t1 = t2 /\ i = j

StartingIsFresh ==
  \A th \in Threads : \A i \in 1 .. Len(stack[th]) :
    stack[th][i].pc \in StartPC =>
      LET u == stack[th][i].arg IN body[u] = "fresh" /\ u \notin todo[Awaiter(u)]

TodoIsFresh ==
  \A u \in Tasks : u \in todo[Awaiter(u)] => body[u] = "fresh"

RunningIsNotFresh ==
  \A th \in Threads : \A i \in 1 .. Len(stack[th]) :
    stack[th][i].pc \in RunPC => body[stack[th][i].task] # "fresh"

ContinuationIsNotFresh ==
  /\ \A t \in Tasks : onCompleted[t] => body[Awaiter(t)] # "fresh"
  /\ \A l \in Leaves : continuation[l] => body[l] # "fresh"

FreshHasMachine ==
  \A t \in Tasks : body[t] = "fresh" => stateMachine[t]

ClearIsTerminal ==
  \A th \in Threads : \A i \in 1 .. Len(stack[th]) :
    stack[th][i].pc = "clear" => state[stack[th][i].task] \in Terminal

MachineInv ==
  /\ StartedOnce /\ StartingIsFresh /\ TodoIsFresh /\ RunningIsNotFresh
  /\ ContinuationIsNotFresh /\ FreshHasMachine /\ ClearIsTerminal
  /\ MachineKeptWhileRunning
=============================================================================
