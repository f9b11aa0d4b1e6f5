----------------------------- MODULE Conversation -----------------------------
(***************************************************************************)
(* What a message thread promises: every question put to the model is the  *)
(* whole history that the caller sees, as if each turn sent all of it.     *)
(* Where the server keeps the history, what goes out on the wire, and how  *)
(* often a turn is sent are not to be seen here.                           *)
(***************************************************************************)
EXTENDS Integers, SequencesExt, Subsequence

CONSTANT None   \* no question is being answered

VARIABLES
  history,    \* what the caller sees: said, answered, and said since
  question,   \* what the model was asked and has not answered yet
  asked,      \* how many messages of the question came with the call
  rewritten   \* the caller has since edited the history that was asked

vars == <<history, question, asked, rewritten>>

Init == history = <<>> /\ question = None /\ asked = 0 /\ rewritten = FALSE

\* A reply that the caller says again may count for nothing.
Unrepeated(before, said) ==
  LET Repeats(i) == said[i].by # "user" /\ (said[i] \in Range(before) \/ \E j \in 1..i - 1 : said[j] = said[i])
  IN {Kept(said, DOMAIN said \ dropped) : dropped \in SUBSET {i \in DOMAIN said : Repeats(i)}}

Say ==
  /\ Len(history') = Len(history) + 1 /\ IsPrefix(history, history')
  /\ UNCHANGED <<question, asked, rewritten>>

\* The caller takes away one end of the history.
Edit ==
  /\ history # <<>>
  /\ \E h \in {Front(history), Tail(history)} : history' \in Unrepeated(<<>>, h)
  /\ rewritten' = (question # None /\ ~IsPrefix(question, history'))
  /\ UNCHANGED <<question, asked>>

\* The question is the history, with what the call adds to it, or without the answer that was cut off.
Ask ==
  /\ question = None
  /\ \/ IsPrefix(history, history') /\ asked' = Len(history') - Len(history)
     \/ /\ history # <<>> /\ Last(history).by = "cut"
        /\ history' = Front(history) /\ asked' = 0
  /\ question' = history' /\ UNCHANGED rewritten

\* What has become of the question is put before what was said since, unless the caller has rewritten the history.
Settle(outcome) ==
  /\ question # None
  /\ IF rewritten THEN history' \in Unrepeated(<<>>, history)
     ELSE \E said \in Unrepeated(question, SubSeq(history, Len(question) + 1, Len(history))) :
            history' = outcome \o said
  /\ question' = None /\ asked' = 0 /\ rewritten' = FALSE

Answer(r) == Settle(Append(question, r))
CutOff == Settle(question)
TakeBack == Settle(SubSeq(question, 1, Len(question) - asked))

\* The answers that can follow a question: there is one entry after it, by the model.
Answered ==
  \E i \in DOMAIN history' : history'[i].by \in {"reply", "cut"} /\ Answer(history'[i])

Next == Say \/ Edit \/ Ask \/ Answered \/ CutOff \/ TakeBack

Spec == Init /\ [][Next]_vars
===============================================================================
