----------------------------- MODULE LlmClient -----------------------------
(***************************************************************************)
(* The client of the language model (agent/llm.py) for one reply: the      *)
(* provider streams the tool calls it means piece by piece, a piece may    *)
(* be unreadable, and the stream may end or break anywhere.  What the      *)
(* client makes of it is what the agent runs.                              *)
(*                                                                         *)
(* The text of a call's arguments is the sequence of its pieces.  It is    *)
(* JSON if it is whole; no proper beginning of it is; with a piece missing *)
(* inside, or two texts run together, it may be or not.                    *)
(***************************************************************************)
EXTENDS Sequences, Naturals, FiniteSets

CONSTANTS
  Providers,  \* "openai" stands for everything that speaks its protocol
  Arguments,  \* what the arguments of a call may be
  Replies,    \* the calls a provider may mean, by their arguments
  NoArgs,     \* {}
  Half,       \* arguments that are JSON but not what was meant
  Pieces,     \* pieces the text of one call comes in
  MaxEvents   \* bound: replies, unreadable pieces and requests

ASSUME LlmAssumption ==
  /\ Providers \subseteq {"openai", "anthropic"}
  /\ Replies \subseteq Seq(Arguments)
  /\ NoArgs \notin Arguments /\ Half \notin Arguments /\ NoArgs # Half
  /\ Pieces \in Nat \ {0} /\ MaxEvents \in Nat

VARIABLES
  stream,     \* the reply on its way, and what the client has put together
  calls,      \* the calls of the last reply still to be run
  garbled,    \* history: a piece of the last reply was unreadable
  budget      \* bound: events still to come

llmVars == <<stream, calls, garbled, budget>>

NoStream == [open |-> FALSE]

LlmInit == stream = NoStream /\ calls = <<>> /\ garbled = FALSE /\ budget = MaxEvents

Spends == budget > 0 /\ budget' = budget - 1
-----------------------------------------------------------------------------
(* A call is streamed as a head, its pieces and a tail.                    *)
Last == Pieces + 1

Pieced(i, n) == [k \in 1 .. n |-> <<i, k>>]
WholeText(i) == Pieced(i, Pieces)
Beginnings(i) == {Pieced(i, n) : n \in 0 .. Pieces - 1}

(* Mutant: what a cut text begins with is made use of. *)
ParsedCut(text, meant) ==
  IF \E i \in DOMAIN meant : text = WholeText(i) THEN {meant[text[1][1]]} ELSE {NoArgs, Half}

(* The arguments a text gives: {} if json.loads fails. *)
Parsed(text, meant) ==
  IF \E i \in DOMAIN meant : text = WholeText(i) THEN {meant[text[1][1]]}
  ELSE IF \E i \in DOMAIN meant : text \in Beginnings(i) THEN {NoArgs}
  ELSE {NoArgs, Half}

(* chat: the request is sent and the first line waited for.                *)
Asks(provider, meant) ==
  /\ ~stream.open /\ calls = <<>> /\ Spends
  /\ stream' = [open |-> TRUE, provider |-> provider, meant |-> meant, call |-> 1, part |-> 0,
                texts |-> [i \in DOMAIN meant |-> <<>>], named |-> {},
                cur |-> 0, json |-> <<>>, out |-> <<>>]
  /\ garbled' = FALSE
  /\ UNCHANGED calls

More == stream.open /\ stream.call <= Len(stream.meant)

(* The next line comes: what the stream is apart from what is made of it.  *)
Advanced ==
  IF stream.part = Last THEN [stream EXCEPT !.call = @ + 1, !.part = 0]
                        ELSE [stream EXCEPT !.part = @ + 1]

Piece == <<stream.call, stream.part>>

(* _openai_stream keeps a text for each index.                             *)
ReceivesDelta ==
  /\ More /\ stream.provider = "openai"
  /\ \/ stream.part = 0 /\ stream' = [Advanced EXCEPT !.named = @ \cup {stream.call}]
     \/ stream.part \in 1 .. Pieces /\ stream' = [Advanced EXCEPT !.texts[stream.call] = Append(@, Piece)]
     \/ stream.part = Last /\ stream' = Advanced
  /\ UNCHANGED <<calls, garbled, budget>>

Stops ==
  /\ stream.part = Last /\ stream.cur # 0
  /\ \E args \in Parsed(stream.json, stream.meant) :
       stream' = [Advanced EXCEPT !.cur = 0, !.out = Append(@, args)]

(* Mutant: a block does not begin with an empty text. *)
ReceivesOnto ==
  /\ More /\ stream.provider = "anthropic"
  /\ \/ stream.part = 0 /\ stream' = [Advanced EXCEPT !.cur = stream.call]
     \/ stream.part \in 1 .. Pieces /\ stream' = [Advanced EXCEPT !.json = Append(@, Piece)]
     \/ stream.part = Last /\ stream.cur = 0 /\ stream' = Advanced
     \/ Stops
  /\ UNCHANGED <<calls, garbled, budget>>

(* _anthropic_stream keeps the current block, and a call when it stops.    *)
ReceivesBlock ==
  /\ More /\ stream.provider = "anthropic"
  /\ \/ stream.part = 0 /\ stream' = [Advanced EXCEPT !.cur = stream.call, !.json = <<>>]
     \/ stream.part \in 1 .. Pieces /\ stream' = [Advanced EXCEPT !.json = Append(@, Piece)]
     \/ stream.part = Last /\ stream.cur = 0 /\ stream' = Advanced
     \/ Stops
  /\ UNCHANGED <<calls, garbled, budget>>

(* A line that is not JSON is skipped.                                     *)
Skips ==
  /\ More /\ Spends
  /\ stream' = Advanced
  /\ garbled' = TRUE
  /\ UNCHANGED calls

(* The stream ends, perhaps before it should: the calls in the order of    *)
(* their indices.  One whose name was lost names no tool and is dropped.   *)
Begun == {i \in DOMAIN stream.meant : stream.texts[i] # <<>> \/ i \in stream.named}

(* A set of indices in order: before each stand the smaller ones.          *)
InOrder(set) == {order \in [1 .. Cardinality(set) -> set] :
                   \A n \in DOMAIN order : Cardinality({i \in set : i < order[n]}) = n - 1}

Ends ==
  /\ stream.open
  /\ IF stream.provider = "anthropic"
       THEN calls' = stream.out
       ELSE \E order \in InOrder(Begun \cap stream.named) :
            \E args \in [DOMAIN order -> Arguments \cup {NoArgs, Half}] :
              /\ \A n \in DOMAIN order : args[n] \in Parsed(stream.texts[order[n]], stream.meant)
              /\ calls' = args
  /\ stream' = NoStream
  /\ UNCHANGED <<garbled, budget>>

(* The connection breaks or times out: LLMError, and no call is run.       *)
Breaks ==
  /\ stream.open
  /\ stream' = NoStream /\ calls' = <<>>
  /\ UNCHANGED <<garbled, budget>>

Receives == ReceivesDelta \/ ReceivesBlock \/ Skips \/ Ends \/ Breaks
-----------------------------------------------------------------------------
StreamShape ==
  [open : {TRUE}, provider : Providers, meant : Replies, call : Nat \ {0}, part : 0 .. Last,
   texts : Seq(Seq(Nat \X Nat)), named : SUBSET Nat, cur : Nat, json : Seq(Nat \X Nat),
   out : Seq(Arguments \cup {NoArgs, Half})]

LlmTypeOK ==
  /\ stream \in {NoStream} \cup StreamShape
  /\ stream.open => DOMAIN stream.texts = DOMAIN stream.meant
  /\ calls \in Seq(Arguments \cup {NoArgs, Half})
  /\ garbled \in BOOLEAN /\ budget \in Nat

(* The calls the client hands over are the first of those the model meant, *)
(* in their order, each with the arguments meant for it or with none,      *)
(* wherever the stream was cut and whichever protocol it came in, as long  *)
(* as every line could be read.                                            *)
CallsAreThoseMeant ==
  [][Ends /\ ~garbled =>
       /\ Len(calls') <= Len(stream.meant)
       /\ \A n \in DOMAIN calls' : calls'[n] \in {stream.meant[n], NoArgs}]_llmVars
=============================================================================
