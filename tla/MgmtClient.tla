----------------------------- MODULE MgmtClient -----------------------------
(***************************************************************************)
(* The management client's calls (management_client.go): a request with    *)
(* the next sequence number is written, one answer is read and taken for   *)
(* the answer, whatever its sequence number.  The server answers in order, *)
(* late or never; a write or a read may fail.                              *)
(***************************************************************************)
EXTENDS Integers, Sequences

CONSTANTS DataSet,       \* what can be asked for, each with a TLV type of its own
          MaxCalls,      \* bound on the calls
          SeqWord        \* 2^16

ASSUME MgmtAssumption == MaxCalls \in Nat /\ SeqWord \in Nat \ {0}

Call == 1..MaxCalls

VARIABLES
  sequence,    \* MgmtClient.Sequence
  calls,       \* calls begun
  waiting,     \* the last call waits for its answer
  wanted,      \* what each call asked for
  requests,    \* requests on their way to the server
  answers,     \* answers on their way back
  returned     \* what each call returned

mgVars == <<sequence, calls, waiting, wanted, requests, answers, returned>>

Pending == [status |-> "none", call |-> 0, type |-> "none"]
Broken == [status |-> "failed", call |-> 0, type |-> "none"]

MgInit ==
  /\ sequence = 0 /\ calls = 0 /\ waiting = FALSE
  /\ wanted = [c \in Call |-> "none"]
  /\ requests = <<>> /\ answers = <<>>
  /\ returned = [c \in Call |-> Pending]

\* SendPacket: the number goes up also when the write fails.
SendRequest(set) ==
  /\ ~waiting /\ calls < MaxCalls
  /\ calls' = calls + 1
  /\ sequence' = (sequence + 1) % SeqWord
  /\ wanted' = [wanted EXCEPT ![calls'] = set]
  /\ \/ /\ requests' = Append(requests, [seq |-> sequence', call |-> calls', type |-> set])
        /\ waiting' = TRUE /\ UNCHANGED returned
     \/ /\ returned' = [returned EXCEPT ![calls'] = Broken]
        /\ UNCHANGED <<requests, waiting>>
  /\ UNCHANGED answers

\* The server answers the next request with its data set or with a management
\* error, or drops it.
ServerAnswers ==
  /\ requests # <<>> /\ requests' = Tail(requests)
  /\ \/ \E s \in {"ok", "error"} :
          LET r == Head(requests)
          IN  answers' = Append(answers, [status |-> s, seq |-> r.seq, call |-> r.call,
                                          type |-> r.type])
     \/ UNCHANGED answers
  /\ UNCHANGED <<sequence, calls, waiting, wanted, returned>>

\* Mutant: the TLV's type is not compared with the wanted one.
OutcomeUnchecked(a, set) ==
  [status |-> IF a.status = "ok" THEN "ok" ELSE "rejected", call |-> a.call, type |-> a.type]

\* decodeMgmtPacket and the caller's type assertion: an error status, or a TLV
\* of another type than the wanted one, is an error of the call.
Outcome(a, set) ==
  [status |-> IF a.status = "ok" /\ a.type = set THEN "ok" ELSE "rejected",
   call |-> a.call, type |-> a.type]

ReadAnswer ==
  /\ waiting /\ answers # <<>>
  /\ answers' = Tail(answers)
  /\ returned' = [returned EXCEPT ![calls] = Outcome(Head(answers), wanted[calls])]
  /\ waiting' = FALSE
  /\ UNCHANGED <<sequence, calls, wanted, requests>>

\* The connection's Read returns an error, after a deadline for instance.
ReadFails ==
  /\ waiting
  /\ returned' = [returned EXCEPT ![calls] = Broken]
  /\ waiting' = FALSE
  /\ UNCHANGED <<sequence, calls, wanted, requests, answers>>

MgNext == (\E set \in DataSet : SendRequest(set)) \/ ServerAnswers
          \/ ReadAnswer \/ ReadFails
MgSpec == MgInit /\ [][MgNext]_mgVars

-----------------------------------------------------------------------------
MgTypeOK ==
  /\ sequence \in 0..(SeqWord - 1) /\ calls \in 0..MaxCalls /\ waiting \in BOOLEAN
  /\ wanted \in [Call -> DataSet \cup {"none"}]
  /\ \A c \in Call : returned[c].status \in {"none", "ok", "rejected", "failed"}

\* A call that succeeds has the data set it asked for, and it is the answer to
\* its own request unless a read before it failed: nothing but a failed read
\* leaves an answer behind for a later call.
AnswerFits ==
  \A c \in Call : returned[c].status = "ok" =>
    /\ returned[c].type = wanted[c]
    /\ returned[c].call # c => \E b \in 1..(c - 1) : returned[b].status = "failed"
    /\ \A b \in 1..(c - 1) : returned[b].call < returned[c].call
=============================================================================
