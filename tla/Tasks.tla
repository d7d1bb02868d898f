-------------------------------- MODULE Tasks --------------------------------
(***************************************************************************)
(* What one running poller does with its work: SQS messages                *)
(* (pkg/evsource/aws/sqs/sqs.go) or step function activity tasks           *)
(* (pkg/evsource/aws/stepfunc/stepfunc.go).  An SQS poller receives a      *)
(* batch and hands it to its workers over an unbuffered channel; the       *)
(* workers of a step function poller fetch one task each.  The component   *)
(* answers a request with 200 or not; SQS offers a message again when its  *)
(* visibility timeout has passed.  A call that receives work may be cut    *)
(* off, by its timeout or by the cancellation of the poller, after AWS has *)
(* given the work away.                                                    *)
(***************************************************************************)
EXTENDS Integers, FiniteSets

CONSTANTS Messages,  \* messages or tasks
          Workers,   \* the poller's concurrency
          PerPoll,   \* MessagesPerPoll
          NoMessage  \* a worker without a request

ASSUME NoMessageAssumption == NoMessage \notin Messages

VARIABLES source,  \* "sqs" or "stepfunc"
          box,     \* box[m]: at AWS, "waiting", "taken", "succeeded" or "failed"
          batch,   \* messages received and not yet handed to a worker
          work,    \* work[w]: message of w's request, or NoMessage
          answers, \* answers[m]: what the component answered since m was received
          missed,  \* messages given away in a call whose answer was lost
          told,    \* messages AWS was called about after an answer
          run      \* "polling", "cancelled", "returned" or "panicked"

taskVars == <<source, box, batch, work, answers, missed, told, run>>

TasksTypeOK ==
  /\ source \in {"sqs", "stepfunc"}
  /\ box \in [Messages -> {"waiting", "taken", "succeeded", "failed"}]
  /\ batch \subseteq Messages
  /\ work \in [Workers -> Messages \cup {NoMessage}]
  /\ answers \in [Messages -> SUBSET {"ok", "error"}]
  /\ missed \subseteq Messages
  /\ told \subseteq Messages
  /\ run \in {"polling", "cancelled", "returned", "panicked"}

TasksInit ==
  /\ source \in {"sqs", "stepfunc"}
  /\ box = [m \in Messages |-> "waiting"]
  /\ batch = {}
  /\ work = [w \in Workers |-> NoMessage]
  /\ answers = [m \in Messages |-> {}]
  /\ missed = {}
  /\ told = {}
  /\ run = "polling"

-----------------------------------------------------------------------------
Idle(w) == work[w] = NoMessage
Waiting == {m \in Messages : box[m] = "waiting"}
Alive == run \in {"polling", "cancelled"}

(* AWS gives the work ms away in one call: the poller receives it, and nothing is
   answered yet; or it misses the call's answer. *)
Receive(ms) ==
  /\ box' = [m \in Messages |-> IF m \in ms THEN "taken" ELSE box[m]]
  /\ answers' = [m \in Messages |-> IF m \in ms THEN {} ELSE answers[m]]
  /\ missed' = missed \ ms

Miss(ms) ==
  /\ box' = [m \in Messages |-> IF m \in ms THEN "taken" ELSE box[m]]
  /\ missed' = missed \cup ms
  /\ UNCHANGED <<answers, batch, work>>

(* poll(): up to PerPoll messages become invisible.  The context is looked at
   only before a poll, and ends the call with an error. *)
Poll ==
  /\ source = "sqs" /\ run = "polling" /\ batch = {}
  /\ \E ms \in SUBSET Waiting :
       /\ Cardinality(ms) \in 1 .. PerPoll
       /\ (Receive(ms) /\ batch' = ms /\ UNCHANGED work) \/ Miss(ms)
  /\ UNCHANGED <<source, told, run>>

(* reqCh <- msg waits for a worker, whatever the context says. *)
HandOver(w) ==
  /\ Alive /\ Idle(w)
  /\ \E m \in batch : work' = [work EXCEPT ![w] = m] /\ batch' = batch \ {m}
  /\ UNCHANGED <<source, box, answers, missed, told, run>>

(* getTask: the context is looked at again under the lock; the call itself has
   another context, and a timeout. *)
GetTask(w) ==
  /\ source = "stepfunc" /\ run = "polling" /\ Idle(w)
  /\ \E m \in Waiting :
       \/ (Receive({m}) /\ work' = [work EXCEPT ![w] = m] /\ UNCHANGED batch)
       \/ Miss({m})
  /\ UNCHANGED <<source, told, run>>

(* The request of worker w is answered. *)
Answered(w, a) ==
  /\ Alive /\ ~Idle(w)
  /\ answers' = [answers EXCEPT ![work[w]] = @ \cup {a}]
  /\ work' = [work EXCEPT ![w] = NoMessage]
  /\ UNCHANGED <<source, batch, missed>>

(* A call about w's message; it may be lost. *)
Tell(w, fate) ==
  /\ told' = told \cup {work[w]}
  /\ \/ box' = [box EXCEPT ![work[w]] = fate]
     \/ UNCHANGED box
  /\ UNCHANGED run

(* 200: DeleteMessage or SendTaskSuccess. *)
Finish(w) == Answered(w, "ok") /\ Tell(w, "succeeded")

(* Not 200: SQS keeps the message; SendTaskFailure for a task. *)
Refuse(w) ==
  /\ Answered(w, "error")
  /\ IF source = "sqs" THEN UNCHANGED <<box, told, run>> ELSE Tell(w, "failed")

(* Without the header step-func-cause the cause is taken from an error that is
   nil: the goroutine panics and the process ends. *)
RefuseWithoutCause(w) ==
  /\ source = "stepfunc"
  /\ Answered(w, "error")
  /\ run' = "panicked"
  /\ UNCHANGED <<box, told>>

(* The visibility timeout of an SQS message, also while it is worked on. *)
Reappear(m) ==
  /\ source = "sqs" /\ box[m] = "taken"
  /\ box' = [box EXCEPT ![m] = "waiting"]
  /\ UNCHANGED <<source, batch, work, answers, missed, told, run>>

CancelTasks ==
  /\ run = "polling" /\ run' = "cancelled"
  /\ UNCHANGED <<source, box, batch, work, answers, missed, told>>

(* Mutant: the loop over the batch also ends when the poller is cancelled. *)
Return_DropsBatch ==
  /\ run = "cancelled" /\ \A w \in Workers : Idle(w)
  /\ run' = "returned" /\ batch' = {}
  /\ UNCHANGED <<source, box, work, answers, missed, told>>

(* close(reqCh) after the batch was handed over, wg.Wait(). *)
Return ==
  /\ run = "cancelled" /\ batch = {} /\ \A w \in Workers : Idle(w)
  /\ run' = "returned"
  /\ UNCHANGED <<source, box, batch, work, answers, missed, told>>

TaskStep(w) ==
  HandOver(w) \/ Finish(w) \/ Refuse(w) \/ RefuseWithoutCause(w)

TasksNext ==
  \/ Poll \/ CancelTasks \/ Return
  \/ \E w \in Workers : TaskStep(w) \/ GetTask(w)
  \/ \E m \in Messages : Reappear(m)
-----------------------------------------------------------------------------
(* Work that AWS has given to the poller is never dropped: as long as it is hidden
   from everybody else, the component has answered a request about it, or the
   poller, cancelled or not, has it in its hands; or the call that should have
   brought it was cut off, so that only AWS can offer it again.  A poller that
   has returned, whose role another node may take, has nothing in its hands
   (sqs.go:109-193, stepfunc.go:115-219). *)
NoneIsDropped ==
  \A m \in Messages : box[m] = "taken" =>
    \/ answers[m] # {}
    \/ m \in missed
    \/ run # "returned" /\ (m \in batch \/ \E w \in Workers : work[w] = m)

(* "If a non-200 response is returned, SendTaskFailure is called"
   (docs/gitbook/event_sources/aws_stepfunc.md:12). *)
FailureIsTold ==
  source = "stepfunc" => \A m \in Messages : "error" \in answers[m] => m \in told
=============================================================================
