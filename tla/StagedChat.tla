------------------------------ MODULE StagedChat ------------------------------
(***************************************************************************)
(* The staged chats of one submission                                      *)
(* (src/modules/submissions/staged-chat): the candidate answers a scripted *)
(* customer turn by turn.  Requests come from retrying clients and from    *)
(* several tabs; the task is read before the row is locked, the answer is  *)
(* sent after it is released, and the submission may close, or lose the    *)
(* task, at any moment in between.                                         *)
(***************************************************************************)
EXTENDS Integers, Sequences

CONSTANTS
  Tasks,        \* the staged chats of the simulation
  TurnCount,    \* payload.turnCount of each: fixed when the task is generated
  Keys,         \* idempotency keys
  Handlers,     \* requests served at a time
  NoTask,       \* an idle handler
  MaxSubmits    \* bound: submitAnswers calls served at a time

ASSUME TurnCountAssumption == TurnCount \in [Tasks -> Nat \ {0}]
ASSUME NoTaskAssumption == NoTask \notin Tasks
ASSUME MaxSubmitsAssumption == MaxSubmits \in Nat \ {0}

VARIABLES
  chats,        \* submissions.staged_chats, by task
  completedAt,  \* whether submissions.completed_at is set
  offered,      \* the tasks still in simulations.tasks
  handler,      \* the request each handler serves
  marks,        \* submitAnswers calls that have yet to mark the open chats
  crashed       \* whether one of them died before it did

vars == <<chats, completedAt, offered, handler, marks, crashed>>

-----------------------------------------------------------------------------
(* Records.                                                                *)

NoRecord == [status |-> "NONE", replies |-> <<>>]

RecordFor(t) == IF chats[t] = NoRecord THEN [NoRecord EXCEPT !.status = "IN_PROGRESS"] ELSE chats[t]

CurrentTurn(t) == Len(RecordFor(t).replies) + 1

Stored(t, turn) == {i \in DOMAIN chats[t].replies : chats[t].replies[i].turn = turn}

(* Mutant: the row is not asked whether the submission has been closed.    *)
SessionOpenAfterClose(t) == RecordFor(t).status = "IN_PROGRESS"

(* Mutant: nor is the record asked whether the chat is over.               *)
SessionOpenUnlessClosed(t) == ~completedAt

SessionOpen(t) == RecordFor(t).status = "IN_PROGRESS" /\ ~completedAt

-----------------------------------------------------------------------------
(* decideReply.                                                            *)

(* Mutant: a stored turn is replayed whatever the key.                     *)
DecideAnyKey(t, turn, key) ==
  IF Stored(t, turn) # {} THEN "replay"
  ELSE IF ~SessionOpen(t) THEN "closed"
  ELSE IF turn # CurrentTurn(t) THEN "stale"
  ELSE "accept"

DecideReply(t, turn, key) ==
  IF Stored(t, turn) # {}
  THEN IF \E i \in Stored(t, turn) : chats[t].replies[i].key = key THEN "replay" ELSE "conflict"
  ELSE IF ~SessionOpen(t) THEN "closed"
  ELSE IF turn # CurrentTurn(t) THEN "stale"
  ELSE "accept"

(* Mutant: the reply is written over the ones before it.                   *)
WithOnlyReply(t, turn, key) ==
  [status |-> IF turn = TurnCount[t] THEN "COMPLETE" ELSE RecordFor(t).status,
   replies |-> <<[turn |-> turn, key |-> key]>>]

(* The record with the reply appended; the last turn completes the chat.   *)
WithReply(t, turn, key) ==
  [status |-> IF turn = TurnCount[t] THEN "COMPLETE" ELSE RecordFor(t).status,
   replies |-> Append(RecordFor(t).replies, [turn |-> turn, key |-> key])]

-----------------------------------------------------------------------------
(* Requests.  An answer shows the customer messages of some turns.         *)

Idle == [pc |-> "idle", task |-> NoTask]

Post(t, turn, key) == [pc |-> "decide", task |-> t, turn |-> turn, key |-> key]

Answer(req, shows) ==
  [pc |-> "replied", task |-> req.task, turn |-> req.turn, key |-> req.key, shows |-> shows]

View(t) ==
  [pc |-> "shown", task |-> t,
   shows |-> {turn \in 1..TurnCount[t] :
                turn < CurrentTurn(t) \/ (turn = CurrentTurn(t) /\ RecordFor(t).status = "IN_PROGRESS")}]

(* responseFor: the message of the next turn, unless this was the last.    *)
NextMessage(req) == {req.turn + 1} \cap 1..TurnCount[req.task]

Serve(h, request) == handler' = [handler EXCEPT ![h] = request]

(* getState: the row as the controller read it.                            *)
GetState(h, t) ==
  /\ handler[h].pc = "idle"
  /\ t \in offered
  /\ Serve(h, View(t))
  /\ UNCHANGED <<chats, completedAt, offered, marks, crashed>>

(* postReply, up to the transaction: any turn may be posted.               *)
PostReply(h, t, turn, key) ==
  /\ handler[h].pc = "idle"
  /\ t \in offered
  /\ Serve(h, Post(t, turn, key))
  /\ UNCHANGED <<chats, completedAt, offered, marks, crashed>>

Decision(h) == DecideReply(handler[h].task, handler[h].turn, handler[h].key)

(* The transaction: one step, for it holds the row's lock throughout.      *)
Replay(h) ==
  /\ handler[h].pc = "decide"
  /\ Decision(h) = "replay"
  /\ Serve(h, Answer(handler[h], NextMessage(handler[h])))
  /\ UNCHANGED <<chats, completedAt, offered, marks, crashed>>

Accept(h) ==
  LET req == handler[h] IN
  /\ req.pc = "decide"
  /\ Decision(h) = "accept"
  /\ chats' = [chats EXCEPT ![req.task] = WithReply(req.task, req.turn, req.key)]
  /\ Serve(h, Answer(req, NextMessage(req)))
  /\ UNCHANGED <<completedAt, offered, marks, crashed>>

(* A refused reply, a text that is empty or too long, an aborted           *)
(* transaction, or an answer that arrives or is lost.                      *)
Finish(h) ==
  /\ handler[h].pc # "idle"
  /\ Serve(h, Idle)
  /\ UNCHANGED <<chats, completedAt, offered, marks, crashed>>

-----------------------------------------------------------------------------
(* submitAnswers: UPDATE, then markOpenSessionsIncomplete.                 *)

SubmitAnswers ==
  /\ marks < MaxSubmits
  /\ completedAt' = TRUE
  /\ marks' = marks + 1
  /\ UNCHANGED <<chats, offered, handler, crashed>>

Mark(record) == IF record.status = "IN_PROGRESS" THEN [record EXCEPT !.status = "INCOMPLETE"] ELSE record

MarkOpenSessionsIncomplete ==
  /\ marks > 0
  /\ marks' = marks - 1
  /\ chats' = [t \in Tasks |-> Mark(chats[t])]
  /\ UNCHANGED <<completedAt, offered, handler, crashed>>

(* The process dies, or the second transaction fails.                      *)
SubmitDies ==
  /\ marks > 0
  /\ marks' = marks - 1
  /\ crashed' = TRUE
  /\ UNCHANGED <<chats, completedAt, offered, handler>>

(* The employer saves the task list without the task: a generated chat     *)
(* cannot be put back by hand.                                             *)
RemoveTask(t) ==
  /\ t \in offered
  /\ offered' = offered \ {t}
  /\ UNCHANGED <<chats, completedAt, handler, marks, crashed>>

-----------------------------------------------------------------------------
Init ==
  /\ chats = [t \in Tasks |-> NoRecord]
  /\ completedAt = FALSE
  /\ offered = Tasks
  /\ handler = [h \in Handlers |-> Idle]
  /\ marks = 0
  /\ crashed = FALSE

Request(h) ==
  \E t \in Tasks :
     \/ GetState(h, t)
     \/ \E turn \in 1..TurnCount[t] + 1, key \in Keys : PostReply(h, t, turn, key)

Next ==
  \/ \E h \in Handlers : Request(h) \/ Replay(h) \/ Accept(h) \/ Finish(h)
  \/ SubmitAnswers \/ MarkOpenSessionsIncomplete \/ SubmitDies
  \/ \E t \in Tasks : RemoveTask(t)

Spec == Init /\ [][Next]_vars

-----------------------------------------------------------------------------
(* Properties.                                                             *)

Replies(t) == [turn : 1..TurnCount[t], key : Keys]

RecordType(t) ==
  [status : {"NONE", "IN_PROGRESS", "COMPLETE", "INCOMPLETE"}, replies : Seq(Replies(t))]

RequestType ==
  {Idle}
  \cup [pc : {"decide"}, task : Tasks, turn : Nat \ {0}, key : Keys]
  \cup [pc : {"replied"}, task : Tasks, turn : Nat \ {0}, key : Keys, shows : SUBSET Nat]
  \cup [pc : {"shown"}, task : Tasks, shows : SUBSET Nat]

(* Types; no chat has more replies than turns.                             *)
TypeOK ==
  /\ DOMAIN chats = Tasks
  /\ \A t \in Tasks : chats[t] \in RecordType(t) /\ Len(chats[t].replies) <= TurnCount[t]
  /\ completedAt \in BOOLEAN /\ crashed \in BOOLEAN
  /\ offered \subseteq Tasks
  /\ handler \in [Handlers -> RequestType]
  /\ marks \in 0..MaxSubmits

(* However requests are retried, repeated or raced with the closing of the *)
(* submission, the stored replies answer turns 1, 2, 3, ... in order, a    *)
(* record exists from the first reply on, and a chat is COMPLETE exactly   *)
(* when every turn is answered.                                            *)
TranscriptInOrder ==
  \A t \in Tasks :
    /\ \A i \in DOMAIN chats[t].replies : chats[t].replies[i].turn = i
    /\ (chats[t].status = "NONE") <=> (chats[t].replies = <<>>)
    /\ (chats[t].status = "COMPLETE") <=> (Len(chats[t].replies) = TurnCount[t])

(* Once a request was answered with success, the reply it carried is the   *)
(* one stored for its turn, and stays so: "A retry with the same           *)
(* idempotency key returns the original response".                         *)
AnsweredIsStored ==
  \A h \in Handlers :
    LET req == handler[h] IN
    req.pc = "replied" =>
      /\ req.turn \in DOMAIN chats[req.task].replies
      /\ chats[req.task].replies[req.turn] = [turn |-> req.turn, key |-> req.key]

(* "The next customer message is released only after that reply is         *)
(* stored": no answer, however late it was computed, shows more than the   *)
(* message after the last stored reply.                                    *)
NoFutureMessage ==
  \A h \in Handlers :
    handler[h].pc \in {"replied", "shown"} =>
      \A turn \in handler[h].shows : turn <= Len(chats[handler[h].task].replies) + 1

(* Unless a submit call died half-way, no chat is left IN_PROGRESS once    *)
(* the calls that closed the submission are over, not even one whose first *)
(* reply raced with them.                                                  *)
ClosedIsMarked ==
  completedAt /\ marks = 0 /\ ~crashed => \A t \in Tasks : chats[t].status # "IN_PROGRESS"

KeysOf(replies) == [i \in DOMAIN replies |-> replies[i].key]

Said == [t \in Tasks |-> KeysOf(chats[t].replies)]

Promise == INSTANCE Transcript WITH said <- Said, closed <- completedAt

(* The transcripts grow by one accepted reply at a time, never after the   *)
(* submission has closed, and nothing else changes them.                   *)
ImplementsTranscript == Promise!Spec

-----------------------------------------------------------------------------
(* A statement of the repository's documents that the code does not keep:   *)
(* refuted by TLC (README, "Known disagreements").                         *)

(* "If the submission closes mid-conversation [...] the transcript is      *)
(* marked incomplete" (docs/gainday-customer-service-role-simulation-      *)
(* research.md:128): not if the process dies after the UPDATE of           *)
(* completed_at, which is another transaction; nothing repeats the mark.   *)
MarkedOnceClosed ==
  completedAt /\ marks = 0 => \A t \in Tasks : chats[t].status # "IN_PROGRESS"
=============================================================================
