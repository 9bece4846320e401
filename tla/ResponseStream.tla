---------------------------- MODULE ResponseStream ----------------------------
(***************************************************************************)
(* One streamed answer of the provider: complete() and                     *)
(* parse_response_stream() of cmd/thesis_demo/assistant_provider.py.       *)
(*                                                                         *)
(* The provider has an answer, a sequence of items, and a text.  It sends  *)
(* one event for each item it finished, in whatever order, pieces of the   *)
(* text, and at the end a completion that may carry the items again.  The  *)
(* connection may end at any event; nothing is lost before its end.        *)
(***************************************************************************)
EXTENDS Naturals, Sequences, FiniteSets, SequencesExt

CONSTANTS
    CallIds,       \* identifiers of tool calls
    MaxItems,      \* output items in an answer; 16 in the code
    MaxText,       \* MAX_TEXT_CHARS, in pieces
    Pieces         \* most pieces of text the provider may send (bound)

StreamAssumption ==
    /\ MaxItems \in Nat \ {0} /\ MaxText \in Nat /\ Pieces \in Nat

VARIABLES
    answer,        \* the provider's output items
    sent,          \* indices of the item events sent
    pieces,        \* pieces of text sent
    items,         \* completed_items: index -> item
    text,          \* pieces received
    pc,            \* "asked", "opening", "opened", "reading", "completed", "failed", "replied"
    late,          \* the deadline has passed, or the job is cancelled
    output,        \* output items of the completion, or what stands for them
    reply          \* tool calls and continuation of the ProviderReply

vars == <<answer, sent, pieces, items, text, pc, late, output, reply>>

\* A continuation keeps the type and what identifies the item.
Items == [kind : {"function_call"}, id : CallIds]
         \cup [kind : {"message", "reasoning", "unknown"}, id : {"none"}]
NoReply == [calls |-> <<>>, continuation |-> <<>>]
IsCall(item) == item.kind = "function_call"

-----------------------------------------------------------------------------
(* Events, each read to the blank line that ends it *)

Fails == pc' = "failed" /\ UNCHANGED <<items, text, output, reply>>

\* complete: an invalid request, or one of a cancelled job, is not sent.
Ask ==
    /\ pc = "asked"
    /\ Fails \/ (~late /\ pc' = "opening" /\ UNCHANGED <<items, text, output, reply>>)
    /\ UNCHANGED <<answer, sent, pieces, late>>

\* _open: there may be no token, no connection, or a status other than success.
Open ==
    /\ pc = "opening"
    /\ Fails \/ (pc' = "opened" /\ UNCHANGED <<items, text, output, reply>>)
    /\ UNCHANGED <<answer, sent, pieces, late>>

\* Of what is labelled as something else than a stream nothing is read; the clock
\* has not been looked at so far.
Accept ==
    /\ pc = "opened"
    /\ Fails \/ (pc' = "reading" /\ UNCHANGED <<items, text, output, reply>>)
    /\ UNCHANGED <<answer, sent, pieces, late>>

\* The clock and the cancel event are looked at on every line.
Reads == pc = "reading"
Interrupted ==
    /\ Reads /\ late
    /\ Fails
    /\ UNCHANGED <<answer, sent, pieces, late>>

\* response.output_item.done; the index says where the item belongs.
ItemDone ==
    /\ Reads /\ ~late
    /\ \E n \in 1..Len(answer) :
         /\ sent' = sent \cup {n}
         /\ IF n > MaxItems \/ n \in DOMAIN items THEN Fails
            ELSE /\ items' = [m \in DOMAIN items \cup {n} |->
                                IF m = n THEN answer[n] ELSE items[m]]
                 /\ UNCHANGED <<text, pc, output, reply>>
    /\ UNCHANGED <<answer, pieces, late>>

\* response.output_text.delta
TextDelta ==
    /\ Reads /\ ~late /\ pieces < Pieces
    /\ pieces' = pieces + 1
    /\ IF text + 1 > MaxText THEN Fails
       ELSE text' = text + 1 /\ UNCHANGED <<items, pc, output, reply>>
    /\ UNCHANGED <<answer, sent, late>>

\* error, response.failed, response.incomplete, response.refusal.delta, an
\* event that is no JSON object, or a line that is too long.
Refusal ==
    /\ Reads /\ Fails
    /\ UNCHANGED <<answer, sent, pieces, late>>

\* Mutant: the end of the stream counts as a completion.
EndIsCompletion ==
    /\ Reads
    /\ pc' = "completed" /\ output' = <<>>
    /\ UNCHANGED <<answer, sent, pieces, items, text, late, reply>>
\* The end of the stream, or [DONE], before a completion.
EndOfStream ==
    /\ Reads /\ Fails
    /\ UNCHANGED <<answer, sent, pieces, late>>

\* response.completed ends the reading.  A completion without items is sent
\* after the events of all of them.
Completion ==
    /\ Reads /\ ~late
    /\ \/ output' = answer
       \/ sent = 1..Len(answer) /\ output' = <<>>
    /\ pc' = "completed"
    /\ UNCHANGED <<answer, sent, pieces, items, text, late, reply>>

-----------------------------------------------------------------------------
(* The reply *)

\* The items of the completion, or those of the events in index order.
OutputItems ==
    IF output = <<>> /\ DOMAIN items # {}
    THEN [n \in 1..Cardinality(DOMAIN items) |-> items[n]]
    ELSE output
Contiguous == DOMAIN items = 1..Cardinality(DOMAIN items)

Acceptable(list) ==
    /\ Len(list) <= MaxItems
    /\ \A n \in DOMAIN list : list[n].kind # "unknown"
    /\ \A m, n \in DOMAIN list :
         IsCall(list[m]) /\ IsCall(list[n]) /\ list[m].id = list[n].id => m = n
    /\ text > 0 \/ \E n \in DOMAIN list : IsCall(list[n])

\* One pass over the items gathers the calls.
CallsOf(list) ==
    LET gathered[n \in 0..Len(list)] ==
          IF n = 0 THEN <<>>
          ELSE IF IsCall(list[n]) THEN Append(gathered[n - 1], list[n])
          ELSE gathered[n - 1]
    IN  gathered[Len(list)]

\* Usage, response identifier and sizes may still be refused.
BuildReply ==
    /\ pc = "completed"
    /\ \/ pc' = "failed" /\ UNCHANGED reply
       \/ /\ output = <<>> => Contiguous
          /\ Acceptable(OutputItems)
          /\ reply' = [calls |-> CallsOf(OutputItems),
                       continuation |-> OutputItems]
          /\ pc' = "replied"
    /\ UNCHANGED <<answer, sent, pieces, items, text, late, output>>

\* The deadline passes, or the cancel event is set.
BecomesLate ==
    /\ ~late /\ pc \in {"asked", "opening", "opened", "reading"} /\ late' = TRUE
    /\ UNCHANGED <<answer, sent, pieces, items, text, pc, output, reply>>

Init ==
    /\ answer \in UNION {[1..n -> Items] : n \in 0..MaxItems + 1}
    /\ sent = {} /\ pieces = 0 /\ items = <<>> /\ text = 0
    /\ pc = "asked" /\ late = FALSE /\ output = <<>> /\ reply = NoReply

Next == Ask \/ Open \/ Accept \/ Interrupted \/ ItemDone \/ TextDelta \/ Refusal \/ EndOfStream
        \/ Completion \/ BuildReply \/ BecomesLate
Spec == Init /\ [][Next]_vars

-----------------------------------------------------------------------------
(* Properties *)

StreamTypeOK ==
    /\ pc \in {"asked", "opening", "opened", "reading", "completed", "failed", "replied"}
    /\ DOMAIN items \subseteq sent /\ sent \subseteq 1..Len(answer)
    /\ text \in 0..MaxText /\ text <= pieces
    /\ output \in Seq(Items) /\ late \in BOOLEAN

\* A reply is the whole answer, in the provider's order, whatever the order in
\* which its items were finished: a partial stream is never a reply.
WholeAnswer ==
    pc = "replied" =>
        /\ reply.continuation = answer
        /\ reply.calls = CallsOf(answer)
        /\ text = pieces

\* The calls of a reply can be told apart by their identifiers, which is what
\* their outputs are matched by.
CallsDistinct ==
    pc = "replied" => IsInjective([n \in DOMAIN reply.calls |-> reply.calls[n].id])

-----------------------------------------------------------------------------
(* What every step keeps, and the safety properties follow from. *)

\* Until a reply is refused nothing that was sent is missing, and what is to be
\* built is the whole answer.
StreamInv ==
    /\ StreamTypeOK /\ pieces \in Nat
    /\ answer \in Seq(Items) /\ items \in [DOMAIN items -> Items]
    /\ \A n \in DOMAIN items : items[n] = answer[n]
    /\ pc \notin {"failed"} => text = pieces /\ DOMAIN items = sent
    /\ pc \in {"completed", "replied"} =>
         output = answer \/ (output = <<>> /\ sent = 1..Len(answer))
    /\ pc = "replied" =>
         /\ reply = [calls |-> CallsOf(answer), continuation |-> answer]
         /\ \A m, n \in DOMAIN answer :
              IsCall(answer[m]) /\ IsCall(answer[n]) /\ answer[m].id = answer[n].id
              => m = n
=============================================================================
