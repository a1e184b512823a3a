--------------------------- MODULE RetryContract ---------------------------
(***************************************************************************)
(* The promise of retry.DoWithRetryE and retry.DoWithRetryableErrorsE, as  *)
(* their callers rely on it: the sequence of attempts grows while every    *)
(* attempt so far was worth a retry and the budget lasts, and one answer   *)
(* is given, which depends on the attempts alone.                          *)
(***************************************************************************)
EXTENDS Integers, Sequences

CONSTANTS
  Texts,         \* outputs of the action and messages of its errors
  EmptyText,     \* the empty output ""
  Budgets,       \* values of maxRetries (an int: zero and negative ones too)
  NoError,       \* the nil error
  Exceeded,      \* the MaxRetriesExceeded error
  BadRegexp,     \* the FatalError about a regexp that does not compile
  NoAnswer       \* the call has not returned yet

\* An error of the action: a FatalError or any other one, and its message.
Errors == [fatal : BOOLEAN, text : Texts]

\* What one run of the action returns.
Results == [out : Texts, err : Errors \union {NoError}]

\* A call: DoWithRetryE ("plain"), or DoWithRetryableErrorsE with patterns
\* that all compile ("filtered") or not ("badRegexp"). The patterns are given
\* by the texts they match.
Calls == [max : Budgets, mode : {"plain", "filtered", "badRegexp"}, patterns : SUBSET Texts]

Answers == [out : Texts, err : Errors \union {NoError, Exceeded, BadRegexp}]

ASSUME RetryAssumption ==
  /\ EmptyText \in Texts
  /\ Budgets \subseteq Int
  /\ NoError \notin Errors /\ Exceeded \notin Errors /\ BadRegexp \notin Errors
  /\ NoError # Exceeded /\ NoError # BadRegexp /\ Exceeded # BadRegexp
  /\ NoAnswer \notin Answers

VARIABLES
  call,    \* the parameters of the call
  tried,   \* what each attempt returned, in order
  answer   \* what the call returned

contractVars == <<call, tried, answer>>

-----------------------------------------------------------------------------

\* An attempt after which there is nothing to retry: it succeeded, it failed
\* for good, or no pattern of the map recognises its output or its error.
Conclusive(r) ==
  r.err # NoError =>
    \/ r.err.fatal
    \/ call.mode = "filtered" /\ r.out \notin call.patterns /\ r.err.text \notin call.patterns

Concluded == \E k \in DOMAIN tried : Conclusive(tried[k])

\* The answer after a conclusive attempt.
AnswerTo(r) ==
  [out |-> r.out,
   err |-> IF r.err = NoError THEN NoError ELSE [fatal |-> TRUE, text |-> r.err.text]]

LastOutput == IF tried = <<>> THEN EmptyText ELSE tried[Len(tried)].out

ContractInit ==
  /\ call \in Calls
  /\ tried = <<>>
  /\ answer = NoAnswer

TryOnce ==
  /\ answer = NoAnswer
  /\ call.mode # "badRegexp"
  /\ Len(tried) <= call.max
  /\ ~Concluded
  /\ \E r \in Results : tried' = Append(tried, r)
  /\ UNCHANGED <<call, answer>>

Reject ==
  /\ answer = NoAnswer
  /\ call.mode = "badRegexp"
  /\ answer' = [out |-> EmptyText, err |-> BadRegexp]
  /\ UNCHANGED <<call, tried>>

Conclude ==
  /\ answer = NoAnswer
  /\ tried # <<>>
  /\ Conclusive(tried[Len(tried)])
  /\ answer' = AnswerTo(tried[Len(tried)])
  /\ UNCHANGED <<call, tried>>

Exhaust ==
  /\ answer = NoAnswer
  /\ call.mode # "badRegexp"
  /\ Len(tried) > call.max
  /\ ~Concluded
  /\ answer' = [out |-> LastOutput, err |-> Exceeded]
  /\ UNCHANGED <<call, tried>>

ContractNext == TryOnce \/ Reject \/ Conclude \/ Exhaust

ContractSafety == ContractInit /\ [][ContractNext]_contractVars

\* The call returns provided that every attempt does.
ContractSpec == ContractSafety /\ WF_contractVars(ContractNext)

=============================================================================
