------------------------- MODULE RoutedQuery_proofs -------------------------
(***************************************************************************)
(* What is proved of a routed query for every number of files and parts,   *)
(* every configuration and threshold: the gates come before the spending,  *)
(* no file is left out in silence, the progress bar counts every section   *)
(* once, and the shards fit the calls they are routed in.                  *)
(***************************************************************************)
EXTENDS RoutedQuery, FoldFacts

USE CardAssumption, RoutedAssumption

----------------------------------------------------------------------------
(* The gates.                                                              *)

\* A stage of which every task is priced has the price of each task from the
\* configuration, the cost map or the loopback rule.
LEMMA PricedIsKnown ==
    ASSUME NEW cfg, NEW t,
           TaskRate(cfg[t]) # Nil
    PROVE  \/ cfg[t].map # Nil \/ cfg[t].loopback
           \/ \A s \in Sides : cfg[t][s] # Nil
<1> DEFINE src == cfg[t]
           side(s) == IF src[s] # Nil THEN src[s]
                      ELSE IF Known(src) # Nil THEN Known(src)[s] ELSE Nil
<1>1. \A s \in Sides : side(s) # Nil
    BY DEF TaskRate
<1>2. src.map = Nil /\ ~src.loopback => Known(src) = Nil
    BY DEF Known
<1> QED BY <1>1, <1>2

\* What passes a gate unasked is priced.
LEMMA PassedIsPriced ==
    /\ \A prior : Passes(Pass1Estimate, prior) => PriceKnown("pass1")
    /\ \A prior : Passes(Pass2Estimate, prior) => PriceKnown("pass2")
<1>1. Pass1Estimate.unpriced = Unpriced(config, {"catalog", "route"})
    BY DEF Pass1Estimate, EstimatePass1
<1>2. Pass2Estimate.unpriced = Unpriced(config, {"extract", "synthesize"})
    BY DEF Pass2Estimate, EstimateQuery
<1>3. Unpriced(config, {"catalog", "route"}) = {} => PriceKnown("pass1")
    BY PricedIsKnown DEF Unpriced, PriceKnown
<1>4. Unpriced(config, {"extract", "synthesize"}) = {} => PriceKnown("pass2")
    BY PricedIsKnown DEF Unpriced, PriceKnown
<1> QED BY <1>1, <1>2, <1>3, <1>4 DEF Passes

\* The strengthening: which gates a run at pc has passed.
GateInv ==
    /\ NothingSpentUnasked
    /\ pc # "idle" => exit = "none"
    /\ pc = "gate1" => entered = {}
    /\ pc = "cards" => "pass1" \in entered
    /\ pc \in {"cards", "route", "gate2"} => entered \subseteq {"pass1"}
    /\ pc = "extract" => "pass2" \in entered

\* No step spends what its gate did not see.
LEMMA GateNext == GateInv /\ [Next]_vars => GateInv'
<1> SUFFICES ASSUME GateInv, [Next]_vars PROVE GateInv'
    OBVIOUS
<1>1. CASE Ask
    BY <1>1 DEF Ask, Forget, GateInv, NothingSpentUnasked
<1>2. CASE Pass1Gate
    <2>0. UNCHANGED <<config, shards, judged>> /\ entered = {} /\ exit = "none"
        BY <1>2 DEF Pass1Gate, GateInv, store, pass2
    <2>1. CASE entered' = entered
        <3>1. exit' = "error" /\ pc' = "idle" /\ UNCHANGED chunk /\ UNCHANGED gates
            BY <1>2, <2>0, <2>1 DEF Pass1Gate, Gate, End
        <3> QED BY <2>0, <3>1 DEF GateInv, NothingSpentUnasked, PriceKnown, gates
    <2>2. CASE entered' # entered
        <3>1. /\ entered' = {"pass1"} /\ pc' = "cards" 
              /\ "pass1" \in asked' \/ (Passes(Pass1Estimate, 0) /\ usd' <= Threshold)
              /\ exit' = "none"
            BY <1>2, <2>0, <2>2 DEF Pass1Gate, Gate, End, Passes, gates
        <3>2. "pass1" \notin asked' => PriceKnown("pass1")'
            BY <2>0, <3>1, PassedIsPriced DEF PriceKnown
        <3> QED BY <2>0, <3>1, <3>2 DEF GateInv, NothingSpentUnasked
    <2> QED BY <2>1, <2>2
<1>3. CASE Pass2Gate
    <2>0. /\ UNCHANGED <<config, shards, judged, chunk>> /\ entered \subseteq {"pass1"}
          /\ pc = "gate2" /\ exit = "none"
        BY <1>3 DEF Pass2Gate, GateInv, store, pass1
    <2>1. CASE UNCHANGED gates /\ pc' = "idle"
        BY <2>0, <2>1 DEF GateInv, NothingSpentUnasked, PriceKnown, gates
    <2>2. CASE /\ entered' = entered \cup {"pass2"} /\ asked \subseteq asked'
               /\ "pass2" \in asked' \/ (Passes(Pass2Estimate, usd) /\ usd' <= Threshold)
               /\ pc' = "extract" /\ exit' = "none"
        <3>1. "pass2" \notin asked' => PriceKnown("pass2")'
            BY <2>0, <2>2, PassedIsPriced DEF PriceKnown
        <3>2. "pass1" \in entered' \ asked' => PriceKnown("pass1")'
            BY <2>0, <2>2 DEF GateInv, NothingSpentUnasked, PriceKnown
        <3>3. /\ entered' \subseteq {"pass1", "pass2"} /\ "pass2" \in entered'
              /\ \A s \in entered' \ asked' : PriceKnown(s)'
            BY <2>0, <2>2, <3>1, <3>2
        <3>4. entered' # {"pass1"} /\ ("pass2" \notin asked' => usd' <= Threshold)
            BY <2>2, <3>3
        <3>5. \/ \E f \in Files, i \in 1..MaxParts : chunk'[f][i] # "none"
              \/ shards' # <<>>
              => "pass1" \in entered'
            BY <2>0, <2>2 DEF GateInv, NothingSpentUnasked
        <3>6. NothingSpentUnasked'
            BY <3>3, <3>4, <3>5 DEF NothingSpentUnasked
        <3> QED BY <2>2, <3>3, <3>6 DEF GateInv
    <2> QED BY <1>3, <2>0, <2>1, <2>2 DEF Pass2Gate, Gate, End, Passes, gates
<1>4. CASE ChunkBack \/ ChunkLost
    <2>1. "pass1" \in entered
        BY <1>4 DEF ChunkBack, ChunkLost, GateInv, NothingSpentUnasked
    <2>2. UNCHANGED <<config, pc, exit, shards, judged, asked, entered, usd>>
        BY <1>4 DEF ChunkBack, ChunkLost, store, pass2, gates
    <2> QED BY <2>1, <2>2 DEF GateInv, NothingSpentUnasked, PriceKnown
<1>5. CASE StartRouting \/ RouteShard \/ RouteFails \/ PlanPass2
    BY <1>5 DEF StartRouting, RouteShard, RouteFails, PlanPass2, EstimateEnds, End,
                GateInv, NothingSpentUnasked, PriceKnown, store, pass1, pass2, gates
<1>6. CASE ReadSection
    BY <1>6 DEF ReadSection, FileEnds, GateInv, NothingSpentUnasked, PriceKnown,
                pass1, gates
<1>7. CASE Pass2Ends \/ Synthesize \/ Crash
    BY <1>7 DEF Pass2Ends, Synthesize, Crash, Report, End, GateInv,
                NothingSpentUnasked, PriceKnown, store, pass1, pass2, gates
<1>8. CASE Reindex
    BY <1>8 DEF Reindex, Forget, GateInv, NothingSpentUnasked
<1>9. CASE UNCHANGED vars
    BY <1>9 DEF vars, store, pass1, pass2, gates, GateInv, NothingSpentUnasked,
                PriceKnown
<1> QED
    BY <1>1, <1>2, <1>3, <1>4, <1>5, <1>6, <1>7, <1>8, <1>9 DEF Next, RunStep

\* No call of a stage is made before its gate; and a run the user was never
\* asked about has a price for every task and keeps the sum of its projections
\* within the threshold, whatever the sizes, the rates and the failures.
THEOREM GatedSpending == Spec => []NothingSpentUnasked
<1>1. Init => GateInv
    BY DEF Init, NothingYet, GateInv, NothingSpentUnasked
<1> QED BY <1>1, GateNext, PTL DEF Spec, GateInv

----------------------------------------------------------------------------
(* Every file is accounted for.                                            *)

\* The types the argument needs; what is sharded, and what it costs, is not
\* part of it.
AccountTypes ==
    /\ parts \in [Files -> 1..MaxParts]
    /\ card \in [Files -> Cards \cup {Nil}]
    /\ plan \in [Files -> {"out", "cached", "todo", "done"}]
    /\ judged \in [Files -> [n : Int, how : SUBSET Kinds]]
    /\ shown \in [Files -> {"none", "partial", "whole"}]
    /\ mode \in {"sweep", "route", "estimate"}

\* A card is made of all of its file.
CardsWhole == \A f \in Files : card[f] # Nil => card[f].of = 1..parts[f]

\* While there is routing to do, every file has a card or has failed to get
\* one, and the replies decide on cards only.
RoutingInv ==
    /\ pc = "route" /\ mode # "sweep" => Files \subseteq Carded \cup cardFailed
    /\ pc \in {"gate1", "cards", "route"} => decided \subseteq Carded

\* From its plan to its end a run has left files out for one reason only.
LeftOutInv ==
    pc \in {"gate2", "extract", "synthesize"} =>
        /\ mode # "estimate"
        /\ \A f \in Files : plan[f] = "out" =>
              mode = "route" /\ f \in refused /\ card[f] # Nil

\* What the plan says of a file from the gate of pass 2 on.
PlannedInv ==
    /\ pc = "gate2" => \A f \in Files : plan[f] # "done"
    /\ pc \in {"extract", "synthesize"} =>
          \A f \in Files :
              /\ plan[f] = "cached" => shown[f] = "whole"
              /\ plan[f] = "done" => shown[f] = "whole" \/ f \in failures
    /\ pc = "synthesize" => \A f \in Files : plan[f] # "todo"

AccountInv ==
    /\ AccountTypes /\ CardsWhole /\ RoutingInv /\ LeftOutInv /\ PlannedInv
    /\ AccountedFor
    /\ pc # "idle" => exit = "none"

\* Before anything is asked every file is accounted for.
LEMMA AccountInit == Init => AccountInv
BY DEF Init, NothingYet, AccountInv, AccountTypes, CardsWhole, RoutingInv,
       LeftOutInv, PlannedInv, AccountedFor

\* A merged card is of the whole file, and no card is lost while a run goes on.
LEMMA CardsMade ==
    ASSUME AccountInv, ChunkBack
    PROVE  /\ card' \in [Files -> Cards \cup {Nil}]
           /\ CardsWhole'
           /\ Carded \subseteq Carded'
<1>1. PICK f \in Files : MakeCard(f)
    BY DEF ChunkBack
<1>2. Back(f) \in SUBSET (1..MaxParts) /\ UNCHANGED parts
    BY DEF Back, ChunkBack
<1>3. CASE Back(f) = 1..parts[f]
    <2>1. PICK s \in CardSizes : card' = [card EXCEPT ![f] = [of |-> Back(f), size |-> s]]
        BY <1>1, <1>3 DEF MakeCard
    <2>2. [of |-> Back(f), size |-> s] \in Cards
        BY <1>2 DEF Cards
    <2> QED BY <1>2, <1>3, <2>1, <2>2
            DEF AccountInv, AccountTypes, CardsWhole, Carded
<1>4. CASE Back(f) # 1..parts[f]
    BY <1>1, <1>2, <1>4 DEF MakeCard, AccountInv, AccountTypes, CardsWhole, Carded
<1> QED BY <1>3, <1>4

\* A report after pass 2 accounts for every file.
LEMMA ReportAccounts ==
    ASSUME AccountInv, Report, pc \in {"extract", "synthesize"},
           \A f \in Files : plan[f] # "todo",
           UNCHANGED <<store, mode, pass1, pass2>>
    PROVE  AccountedFor'
<1>1. exit' = IF failures = {} /\ cardFailed = {} THEN "ok" ELSE "partial"
    BY DEF Report, End
<1>2. \A f \in Files :
         \/ shown[f] = "whole"
         \/ f \in failures
         \/ mode = "route" /\ f \in refused /\ card[f] # Nil /\ card[f].of = 1..parts[f]
    BY DEF AccountInv, AccountTypes, LeftOutInv, PlannedInv, CardsWhole
<1> QED BY <1>1, <1>2 DEF AccountedFor, store, pass1, pass2

\* No step loses sight of a file.
LEMMA AccountNext == AccountInv /\ [Next]_vars => AccountInv'
<1> SUFFICES ASSUME AccountInv, [Next]_vars PROVE AccountInv'
    OBVIOUS
<1> USE DEF AccountInv, CardsWhole, RoutingInv, LeftOutInv, PlannedInv
<1>1. CASE Ask
    <2>1. /\ UNCHANGED <<parts, card>> /\ exit' = "none" /\ decided' = {}
          /\ pc' \in {"route", "gate1"} /\ (pc' = "route" => mode' = "sweep")
          /\ mode' \in {"sweep", "route", "estimate"}
          /\ plan' = [f \in Files |-> "out"]
          /\ judged' = [f \in Files |-> [n |-> 0, how |-> {}]]
          /\ shown' = [f \in Files |-> "none"]
        BY <1>1 DEF Ask, Forget, store
    <2>2. AccountTypes'
        BY <2>1 DEF AccountTypes
    <2> QED BY <2>1, <2>2 DEF AccountedFor
<1>2. CASE Pass1Gate
    <2>1. /\ UNCHANGED <<store, mode, decided, pass2>> /\ pc = "gate1"
          /\ \/ pc' = "cards" /\ exit' = "none"
             \/ pc' = "idle" /\ exit' = "error"
        BY <1>2 DEF Pass1Gate, Gate, End
    <2> QED BY <2>1 DEF AccountTypes, AccountedFor, Carded, store, pass2
<1>3. CASE ChunkBack
    <2>1. UNCHANGED <<parts, pc, mode, cardFailed, decided, refused, pass2, exit>> /\ pc # "idle"
        BY <1>3 DEF ChunkBack
    <2> QED BY <1>3, <2>1, CardsMade DEF AccountTypes, AccountedFor, Carded, pass2
<1>4. CASE ChunkLost
    <2>1. UNCHANGED <<store, pc, mode, decided, refused, pass2, exit>> /\ pc # "idle"
          /\ cardFailed \subseteq cardFailed' /\ cardFailed' \subseteq cardFailed \cup Files
        BY <1>4 DEF ChunkLost
    <2> QED BY <2>1 DEF AccountTypes, AccountedFor, Carded, store, pass2
<1>5. CASE StartRouting
    BY <1>5 DEF StartRouting, CardsSettled, AccountTypes, AccountedFor, Carded,
                store, pass2
<1>6. CASE RouteShard
    BY <1>6 DEF RouteShard, AccountTypes, AccountedFor, Carded, store, pass2
<1>7. CASE RouteFails \/ Crash
    BY <1>7 DEF RouteFails, Crash, End, AccountTypes, AccountedFor, store, pass1, pass2
<1>8. CASE PlanPass2
    <2>1. /\ UNCHANGED <<store, cardFailed, judged, failures, shown, mode>>
          /\ pc = "route" /\ refused' = decided \ included
        BY <1>8 DEF PlanPass2
    <2>2. /\ plan' \in [Files -> {"out", "cached", "todo"}]
          /\ \A f \in Files : plan'[f] = "out" => f \notin Candidates
        BY <1>8 DEF PlanPass2
    <2>3. \A f \in Files : f \notin Candidates =>
             mode # "sweep" /\ f \in Carded /\ f \in refused'
        BY <2>1 DEF Candidates, Routed
    <2>4. \/ mode = "estimate" /\ pc' = "idle"
          \/ mode # "estimate" /\ pc' = "gate2" /\ UNCHANGED exit
        BY <1>8 DEF PlanPass2, EstimateEnds, End
    <2> QED BY <2>1, <2>2, <2>3, <2>4 DEF AccountTypes, AccountedFor, Carded, store
<1>9. CASE Pass2Gate
    <2>1. /\ UNCHANGED <<store, mode, pass1, plan, judged, failures>> /\ pc = "gate2"
          /\ \/ /\ pc' = "extract" /\ exit' = "none"
                /\ shown' = [f \in Files |-> IF plan[f] = "cached" THEN "whole" ELSE "none"]
             \/ pc' = "idle" /\ exit' = "error" /\ UNCHANGED shown
        BY <1>9 DEF Pass2Gate, Gate, End
    <2> QED BY <2>1 DEF AccountTypes, AccountedFor, store, pass1
<1>10. CASE ReadSection
    <2>1. PICK f \in ToRead, k \in Kinds :
            LET n   == judged[f].n + 1
                how == judged[f].how \cup {k}
            IN IF n = parts[f]
               THEN /\ FileEnds(f, how)
                    /\ judged' = [judged EXCEPT ![f] = [n |-> n, how |-> {}]]
               ELSE /\ judged' = [judged EXCEPT ![f] = [n |-> n, how |-> how]]
                    /\ UNCHANGED <<shown, failures, verdict, plan>>
        BY <1>10 DEF ReadSection
    <2> DEFINE how == judged[f].how \cup {k}
    <2>2. UNCHANGED <<parts, card, pc, mode, pass1, exit>> /\ pc = "extract"
        BY <1>10 DEF ReadSection
    <2>3. /\ how \subseteq Kinds /\ f \in Files /\ plan[f] = "todo" /\ k \in Kinds
          /\ judged[f].n + 1 \in Int
        BY DEF AccountTypes, ToRead
    <2>4. CASE judged[f].n + 1 = parts[f]
        <3>1. /\ FileEnds(f, how)
              /\ judged' = [judged EXCEPT ![f] = [n |-> judged[f].n + 1, how |-> {}]]
            BY <2>1, <2>4
        <3>2. judged' \in [Files -> [n : Int, how : SUBSET Kinds]]
            BY <2>3, <3>1 DEF AccountTypes
        <3>3. /\ shown' \in [Files -> {"none", "partial", "whole"}]
              /\ plan' = [plan EXCEPT ![f] = "done"]
              /\ failures \subseteq failures'
              /\ \A g \in Files \ {f} : shown'[g] = shown[g]
            BY <2>3, <3>1 DEF FileEnds, AccountTypes
        <3>4. CASE how \cap {"cut", "lost"} = {}
            <4>1. how \subseteq {"clean", "fallback"} /\ how # {"lost"}
                BY <2>3, <3>4 DEF Kinds
            <4>2. shown'[f] = "whole"
                BY <2>3, <3>1, <4>1 DEF FileEnds, AccountTypes
            <4> QED BY <2>2, <2>3, <3>2, <3>3, <4>2 DEF AccountTypes, AccountedFor, Carded, pass1
        <3>5. CASE how \cap {"cut", "lost"} # {}
            <4>1. f \in failures'
                BY <3>1, <3>5 DEF FileEnds
            <4> QED BY <2>2, <2>3, <3>2, <3>3, <4>1 DEF AccountTypes, AccountedFor, Carded, pass1
        <3> QED BY <3>4, <3>5
    <2>5. CASE judged[f].n + 1 # parts[f]
        <3>1. /\ judged' = [judged EXCEPT ![f] = [n |-> judged[f].n + 1, how |-> how]]
              /\ UNCHANGED <<shown, failures, plan>>
            BY <2>1, <2>5
        <3>2. judged' \in [Files -> [n : Int, how : SUBSET Kinds]]
            BY <2>3, <3>1 DEF AccountTypes
        <3> QED BY <2>2, <3>1, <3>2 DEF AccountTypes, AccountedFor, Carded, pass1
    <2> QED BY <2>4, <2>5
<1>11. CASE Pass2Ends \/ Synthesize
    <2>1. /\ UNCHANGED <<store, mode, pass1, pass2>>
          /\ pc \in {"extract", "synthesize"} /\ \A f \in Files : plan[f] # "todo"
          /\ \/ Report
             \/ pc' = "synthesize" /\ UNCHANGED exit
             \/ End("error")
        BY <1>11 DEF Pass2Ends, Synthesize, ToRead
    <2>2. CASE Report
        <3>1. AccountedFor' /\ pc' = "idle"
            BY <2>1, <2>2, ReportAccounts DEF Report, End
        <3> QED BY <2>1, <3>1 DEF AccountTypes, store, pass1, pass2
    <2>3. CASE pc' = "synthesize" /\ UNCHANGED exit
        BY <2>1, <2>3 DEF AccountTypes, AccountedFor, store, pass1, pass2
    <2>4. CASE End("error")
        BY <2>1, <2>4 DEF End, AccountTypes, AccountedFor, store, pass1, pass2
    <2> QED BY <2>1, <2>2, <2>3, <2>4
<1>12. CASE Reindex
    BY <1>12 DEF Reindex, Forget, AccountTypes, AccountedFor
<1>13. CASE UNCHANGED vars
    BY <1>13 DEF vars, store, pass1, pass2, AccountTypes, AccountedFor, Carded
<1> QED
    BY <1>1, <1>2, <1>3, <1>4, <1>5, <1>6, <1>7, <1>8, <1>9, <1>10, <1>11, <1>12,
       <1>13 DEF Next, RunStep

\* No silent exclusion: a run that answered has shown every file whole, or
\* reported it, or left it out on a routing decision made on a card of all of
\* it, however replies omit or contradict, chunks and sections fail, and
\* gather leaves calls running.
THEOREM NoSilentExclusion == Spec => []AccountedFor
BY AccountInit, AccountNext, PTL DEF Spec, AccountInv

----------------------------------------------------------------------------
(* Sums.                                                                   *)

\* The element a sum adds next.
OneOf(t) == CHOOSE x \in t : TRUE

\* The definition inside Total.
SumFold(s, h) ==
    h = [t \in SUBSET DOMAIN s |->
            IF t = {} THEN 0 ELSE s[OneOf(t)] + h[t \ {OneOf(t)}]]

\* h has the sums of s over the subsets of D.
Sums(h, s, D) ==
    /\ h \in [SUBSET D -> Nat]
    /\ h[{}] = 0
    /\ \A t \in SUBSET D : t # {} => OneOf(t) \in t /\ h[t] = s[OneOf(t)] + h[t \ {OneOf(t)}]

\* A total over a finite set is a fold that adds one element at a time.
LEMMA TotalDefined ==
    ASSUME NEW D, IsFiniteSet(D), NEW s \in [D -> Nat]
    PROVE  \E h : Sums(h, s, D) /\ Total(s) = h[D]
<1> DEFINE ch == [t \in SUBSET D |-> OneOf(t)]
           op == [x \in D \X Nat |-> s[x[1]] + x[2]]
           it == CHOOSE h : SumFold(s, h)
<1>1. \A t \in SUBSET D : ch[t] = OneOf(t) /\ (t # {} => OneOf(t) \in t)
    BY DEF OneOf
<1> HIDE DEF ch
<1>2. Picks(ch, D)
    BY <1>1 DEF Picks
<1>3. op \in [D \X Nat -> Nat]
    OBVIOUS
<1> HIDE DEF op
<1>4. PICK h : IsFold(h, D, Nat, 0, ch, op)
    BY <1>2, <1>3, FoldExists
<1>5. SumFold(s, h)
    <2>1. h = [t \in SUBSET D |-> h[t]]
        BY <1>4 DEF IsFold
    <2>2. \A t \in SUBSET D : h[t] = IF t = {} THEN 0 ELSE op[<<OneOf(t), h[t \ {OneOf(t)}]>>]
        BY <1>1, <1>4 DEF IsFold
    <2>3. \A t \in SUBSET D : t # {} => OneOf(t) \in D /\ h[t \ {OneOf(t)}] \in Nat
        BY <1>1, <1>4 DEF IsFold
    <2>4. \A t \in SUBSET D : h[t] = IF t = {} THEN 0 ELSE s[OneOf(t)] + h[t \ {OneOf(t)}]
        BY <2>2, <2>3 DEF op
    <2>5. h = [t \in SUBSET D |-> IF t = {} THEN 0 ELSE s[OneOf(t)] + h[t \ {OneOf(t)}]]
        BY <2>1, <2>4
    <2> QED BY <2>5 DEF SumFold
<1>6. SumFold(s, it)
    BY <1>5
<1>7. Total(s) = it[D]
    BY DEF Total, FoldSeq, FoldFunction, FoldFunctionOnSet, MapThenFoldSet, it, SumFold, OneOf
<1> HIDE DEF it
<1>8. /\ it = [t \in SUBSET D |-> it[t]] /\ it[{}] = 0
      /\ \A t \in SUBSET D : t # {} => it[t] = s[OneOf(t)] + it[t \ {OneOf(t)}]
    BY <1>6 DEF SumFold
<1>9. ASSUME NEW t \in SUBSET D, t # {}, it[t \ {ch[t]}] \in Nat
      PROVE  it[t] \in Nat
    <2>1. ch[t] = OneOf(t) /\ OneOf(t) \in D /\ s[OneOf(t)] \in Nat
        BY <1>1, <1>9
    <2>2. it[t] = s[OneOf(t)] + it[t \ {OneOf(t)}]
        BY <1>8, <1>9
    <2> QED BY <1>9, <2>1, <2>2
<1>10. SUBSET D \subseteq {u \in SUBSET D : it[u] \in Nat}
    <2> DEFINE P == {u \in SUBSET D : it[u] \in Nat}
    <2>1. {} \in P
        BY <1>8
    <2>3. \A t \in SUBSET D : t # {} /\ t \ {ch[t]} \in P => t \in P
        BY <1>9
    <2> HIDE DEF P
    <2>2. SUBSET D \subseteq P
        BY <1>2, <2>1, <2>3, TakingAway
    <2> QED BY <2>2 DEF P
<1>11. it \in [SUBSET D -> Nat]
    BY <1>8, <1>10
<1> QED BY <1>1, <1>7, <1>8, <1>11 DEF Sums

\* OneOf element may be added first.
LEMMA SumWithout ==
    ASSUME NEW D, IsFiniteSet(D), NEW s \in [D -> Nat], NEW h, Sums(h, s, D)
    PROVE  \A t \in SUBSET D : \A y \in t : h[t] = s[y] + h[t \ {y}]
<1> DEFINE P == {t \in SUBSET D : \A y \in t : h[t] = s[y] + h[t \ {y}]}
<1>1. ASSUME NEW t \in SUBSET D, \A u \in SUBSET t : u # t => u \in P
      PROVE  t \in P
    <2> SUFFICES ASSUME NEW y \in t PROVE h[t] = s[y] + h[t \ {y}]
        OBVIOUS
    <2> DEFINE p == OneOf(t)
    <2>1. p \in t /\ h[t] = s[p] + h[t \ {p}]
        BY DEF Sums
    <2> HIDE DEF p
    <2>2. CASE p = y
        BY <2>1, <2>2
    <2>3. CASE p # y
        <3>1. t \ {p} \in P /\ t \ {y} \in P /\ y \in t \ {p} /\ p \in t \ {y}
            BY <1>1, <2>1, <2>3
        <3>2. h[t \ {p}] = s[y] + h[(t \ {p}) \ {y}]
            BY <3>1
        <3>3. h[t \ {y}] = s[p] + h[(t \ {y}) \ {p}]
            BY <3>1
        <3>4. (t \ {p}) \ {y} = (t \ {y}) \ {p} /\ (t \ {p}) \ {y} \in SUBSET D
            OBVIOUS
        <3>5. s[p] \in Nat /\ s[y] \in Nat /\ h[(t \ {p}) \ {y}] \in Nat
            BY <2>1, <3>4 DEF Sums
        <3> DEFINE rest == h[(t \ {p}) \ {y}]
        <3>6. h[t] = s[p] + (s[y] + rest) /\ h[t \ {y}] = s[p] + rest /\ rest \in Nat
            BY <2>1, <3>2, <3>3, <3>4, <3>5
        <3> HIDE DEF rest
        <3> QED BY <3>5, <3>6
    <2> QED BY <2>2, <2>3
<1> HIDE DEF P
<1>2. SUBSET D \subseteq P
    BY <1>1, SmallerFirst
<1> QED BY <1>2 DEF P

\* A total is one summand and the total of the others.
LEMMA TotalWithout ==
    ASSUME NEW D, IsFiniteSet(D), NEW s \in [D -> Nat], NEW x \in D
    PROVE  /\ Total(s) \in Nat
           /\ Total(s) = s[x] + Total([i \in D \ {x} |-> s[i]])
           /\ Total([i \in D \ {x} |-> s[i]]) \in Nat
<1> DEFINE E == D \ {x}
           r == [i \in E |-> s[i]]
<1>1. IsFiniteSet(E) /\ r \in [E -> Nat] /\ E \in SUBSET D
    BY FS_Subset
<1>2. PICK h : Sums(h, s, D) /\ Total(s) = h[D]
    BY TotalDefined
<1>3. \A i \in E : r[i] = s[i]
    OBVIOUS
<1> HIDE DEF r, E
<1>4. PICK g : Sums(g, r, E) /\ Total(r) = g[E]
    BY <1>1, TotalDefined
<1> DEFINE ch == [t \in SUBSET E |-> OneOf(t)]
           P == {t \in SUBSET E : g[t] = h[t]}
<1>5. Picks(ch, E)
    BY <1>4 DEF Sums, Picks
<1>6. {} \in P
    BY <1>2, <1>4 DEF Sums
<1>7. ASSUME NEW t \in SUBSET E, t # {}, t \ {ch[t]} \in P PROVE t \in P
    <2>1. ch[t] = OneOf(t) /\ OneOf(t) \in t /\ OneOf(t) \in E /\ t \in SUBSET D
        BY <1>1, <1>4, <1>7 DEF Sums
    <2>2. g[t] = r[OneOf(t)] + g[t \ {OneOf(t)}]
        BY <1>4, <1>7 DEF Sums
    <2>3. h[t] = s[OneOf(t)] + h[t \ {OneOf(t)}]
        BY <1>2, <1>7, <2>1 DEF Sums
    <2>4. g[t \ {OneOf(t)}] = h[t \ {OneOf(t)}]
        BY <1>7, <2>1
    <2> QED BY <1>3, <2>1, <2>2, <2>3, <2>4
<1> HIDE DEF P, ch
<1>8. SUBSET E \subseteq P
    BY <1>1, <1>5, <1>6, <1>7, TakingAway
<1>9. g[E] = h[E] /\ g[E] \in Nat /\ h[D] \in Nat
    BY <1>2, <1>4, <1>8 DEF P, Sums
<1>10. h[D] = s[x] + h[D \ {x}]
    BY <1>2, SumWithout
<1> QED BY <1>2, <1>4, <1>9, <1>10 DEF r, E

\* Where one summand changes, the total changes by as much.
LEMMA TotalUpdate ==
    ASSUME NEW D, IsFiniteSet(D), NEW s \in [D -> Nat], NEW r \in [D -> Nat],
           NEW x \in D, \A i \in D \ {x} : r[i] = s[i]
    PROVE  \E rest \in Nat : Total(s) = s[x] + rest /\ Total(r) = r[x] + rest
<1> DEFINE rest == [i \in D \ {x} |-> s[i]]
<1>1. rest = [i \in D \ {x} |-> r[i]]
    OBVIOUS
<1>2. Total(s) = s[x] + Total(rest) /\ Total(rest) \in Nat
    BY TotalWithout
<1> HIDE DEF rest
<1>3. Total(r) = r[x] + Total(rest)
    BY <1>1, TotalWithout
<1> QED BY <1>2, <1>3

\* Smaller summands have a smaller total; equal totals, equal summands.
LEMMA TotalMonotone ==
    ASSUME NEW D, IsFiniteSet(D), NEW s \in [D -> Nat], NEW r \in [D -> Nat],
           \A i \in D : s[i] <= r[i]
    PROVE  /\ Total(s) <= Total(r)
           /\ Total(s) = Total(r) => \A i \in D : s[i] = r[i]
<1>1. PICK h : Sums(h, s, D) /\ Total(s) = h[D]
    BY TotalDefined
<1>2. PICK g : Sums(g, r, D) /\ Total(r) = g[D]
    BY TotalDefined
<1> DEFINE ch == [t \in SUBSET D |-> OneOf(t)]
           P == {t \in SUBSET D : h[t] <= g[t] /\ (h[t] = g[t] => \A i \in t : s[i] = r[i])}
<1>3. Picks(ch, D)
    BY <1>1 DEF Sums, Picks
<1>4. {} \in P
    BY <1>1, <1>2 DEF Sums
<1>5. ASSUME NEW t \in SUBSET D, t # {}, t \ {ch[t]} \in P PROVE t \in P
    <2> DEFINE x == OneOf(t)
               u == t \ {x}
    <2>1. ch[t] = x /\ x \in t /\ x \in D /\ u \in SUBSET D
        BY <1>1, <1>5 DEF Sums
    <2>2. h[t] = s[x] + h[u] /\ g[t] = r[x] + g[u]
        BY <1>1, <1>2, <1>5 DEF Sums
    <2>3. h[u] \in Nat /\ g[u] \in Nat /\ s[x] \in Nat /\ r[x] \in Nat /\ s[x] <= r[x]
        BY <1>1, <1>2, <2>1 DEF Sums
    <2>4. h[u] <= g[u] /\ (h[u] = g[u] => \A i \in u : s[i] = r[i])
        BY <1>5, <2>1
    <2>5. t = u \cup {x}
        BY <2>1
    <2> HIDE DEF x, u
    <2>6. h[t] <= g[t]
        BY <2>2, <2>3, <2>4
    <2>7. h[t] = g[t] => h[u] = g[u] /\ s[x] = r[x]
        BY <2>2, <2>3, <2>4
    <2> QED BY <2>4, <2>5, <2>6, <2>7
<1> HIDE DEF P, ch
<1>6. D \in P
    BY <1>3, <1>4, <1>5, TakingAway
<1> QED BY <1>1, <1>2, <1>6 DEF P

\* A total is at most the number of summands times a bound on each.
LEMMA TotalBounded ==
    ASSUME NEW D, IsFiniteSet(D), NEW s \in [D -> Nat], NEW c \in Nat, \A i \in D : s[i] <= c
    PROVE  Total(s) <= Cardinality(D) * c
<1>1. PICK h : Sums(h, s, D) /\ Total(s) = h[D]
    BY TotalDefined
<1> DEFINE ch == [t \in SUBSET D |-> OneOf(t)]
           P == {t \in SUBSET D : h[t] <= Cardinality(t) * c}
<1>2. Picks(ch, D)
    BY <1>1 DEF Sums, Picks
<1>3. {} \in P
    BY <1>1, FS_EmptySet DEF Sums
<1>4. ASSUME NEW t \in SUBSET D, t # {}, t \ {ch[t]} \in P PROVE t \in P
    <2> DEFINE x == OneOf(t)
               u == t \ {x}
    <2>1. ch[t] = x /\ x \in t /\ x \in D /\ u \in SUBSET D /\ h[t] = s[x] + h[u]
        BY <1>1, <1>4 DEF Sums
    <2>2. h[u] \in Nat /\ s[x] \in Nat /\ s[x] <= c /\ h[u] <= Cardinality(u) * c
        BY <1>1, <1>4, <2>1 DEF Sums
    <2>3. Cardinality(t) \in Nat /\ Cardinality(u) = Cardinality(t) - 1
        BY <2>1, FS_Subset, FS_CardinalityType, FS_RemoveElement
    <2> HIDE DEF x, u
    <2> DEFINE n == Cardinality(u)
    <2>4. n \in Int /\ Cardinality(t) = n + 1 /\ h[u] <= n * c
        BY <2>2, <2>3
    <2> HIDE DEF n
    <2>5. (n + 1) * c = n * c + c /\ n * c \in Int
        BY <2>4
    <2>6. h[t] <= (n + 1) * c
        BY <2>1, <2>2, <2>4, <2>5
    <2> QED BY <2>4, <2>6
<1> HIDE DEF P, ch
<1>5. D \in P
    BY <1>2, <1>3, <1>4, TakingAway
<1> QED BY <1>1, <1>5 DEF P

\* The sum of a sequence grows by what is appended.
LEMMA TotalAppend ==
    ASSUME NEW s \in Seq(Nat), NEW v \in Nat
    PROVE  Total(Append(s, v)) = Total(s) + v /\ Total(s) \in Nat
<1> DEFINE n == Len(s)
           r == Append(s, v)
           E == 1..(n + 1)
<1>1. n \in Nat /\ s \in [1..n -> Nat] /\ r \in Seq(Nat)
    OBVIOUS
<1>2. Len(r) = n + 1 /\ r[n + 1] = v /\ \A i \in 1..n : r[i] = s[i]
    OBVIOUS
<1> HIDE DEF r, n
<1>3. n + 1 \in E /\ IsFiniteSet(E) /\ E \ {n + 1} = 1..n /\ r \in [E -> Nat]
    <2>1. IsFiniteSet(E)
        BY <1>1, FS_Interval
    <2>2. r \in [E -> Nat]
        BY <1>1, <1>2
    <2> QED BY <1>1, <2>1, <2>2
<1>4. s = [i \in 1..n |-> r[i]]
    BY <1>1, <1>2
<1> DEFINE x == n + 1
<1>5. x \in E /\ IsFiniteSet(E) /\ E \ {x} = 1..n /\ r \in [E -> Nat] /\ r[x] = v
    BY <1>2, <1>3
<1> HIDE DEF E, x
<1>6. /\ Total(r) = r[x] + Total([i \in E \ {x} |-> r[i]])
      /\ Total([i \in E \ {x} |-> r[i]]) \in Nat
    BY <1>5, TotalWithout
<1>7. Total(r) = v + Total(s) /\ Total(s) \in Nat
    BY <1>4, <1>5, <1>6
<1>8. Total(r) = Total(s) + v /\ Total(s) \in Nat
    BY <1>7
<1> QED BY <1>8 DEF r

----------------------------------------------------------------------------
(* Files in path order.                                                    *)

\* There are NFiles files.
LEMMA FilesFinite == IsFiniteSet(Files) /\ Cardinality(Files) = NFiles
BY FS_Interval DEF Files

\* Every set of files can be listed in path order.
LEMMA InOrderLists ==
    ASSUME NEW fs \in SUBSET Files
    PROVE  /\ InOrder(fs) \in [1..Cardinality(fs) -> fs]
           /\ InOrder(fs) \in Seq(fs)
           /\ Cardinality(fs) \in Nat
<1>1. fs \subseteq Int /\ IsFiniteSet(fs)
    <2>1. IsFiniteSet(fs)
        BY FilesFinite, FS_Subset, Zenon
    <2>2. fs \subseteq Int
        BY DEF Files
    <2> QED BY <2>1, <2>2
<1>2. Cardinality(fs) \in Nat /\ \E s : Lists(s, fs)
    BY <1>1, ListingExists
<1>3. PICK s \in [1..Cardinality(fs) -> fs] : \A i, j \in DOMAIN s : i < j => s[i] < s[j]
    BY <1>2 DEF Lists
<1>4. InOrder(fs) \in [1..Cardinality(fs) -> fs]
    BY <1>3 DEF InOrder
<1> QED BY <1>2, <1>4

----------------------------------------------------------------------------
(* What is projected is an amount.                                         *)

\* A task has no rate, or an amount for each side of a call.
LEMMA RateType ==
    ASSUME NEW cfg \in [Tasks -> Settings], NEW t \in Tasks
    PROVE  TaskRate(cfg[t]) = Nil \/ TaskRate(cfg[t]) \in [Sides -> Nat]
<1> DEFINE src == cfg[t]
           side(s) == IF src[s] # Nil THEN src[s]
                      ELSE IF Known(src) # Nil THEN Known(src)[s] ELSE Nil
<1>1. src \in Settings
    OBVIOUS
<1> HIDE DEF src
<1>2. Known(src) \in Rates \cup {Nil}
    BY <1>1 DEF Known, Settings, Rates
<1>3. \A s \in Sides : side(s) \in Nat \cup {Nil}
    BY <1>1, <1>2 DEF Sides, Settings, Rates
<1>4. TaskRate(src) = IF \E s \in Sides : side(s) = Nil THEN Nil ELSE [s \in Sides |-> side(s)]
    BY DEF TaskRate
<1> HIDE DEF side
<1>5. TaskRate(src) = Nil \/ TaskRate(src) \in [Sides -> Nat]
    BY <1>3, <1>4
<1> QED BY <1>5 DEF src

\* A price is an amount, an unpriced task's zero included.
LEMMA UsdType ==
    ASSUME NEW cfg \in [Tasks -> Settings], NEW t \in Tasks, NEW in \in Nat, NEW out \in Nat
    PROVE  Usd(cfg, t, in, out) \in Nat
<1> DEFINE r == TaskRate(cfg[t])
<1>1. CASE r = Nil
    BY <1>1 DEF Usd
<1>2. CASE r # Nil
    <2>1. r.in \in Nat /\ r.out \in Nat
        BY <1>2, RateType DEF Sides
    <2> DEFINE a == r.in
               b == r.out
    <2>2. Usd(cfg, t, in, out) = in * a + out * b
        BY <1>2 DEF Usd
    <2> HIDE DEF a, b
    <2>3. in * a \in Nat /\ out * b \in Nat
        BY <2>1 DEF a, b
    <2> QED BY <2>2, <2>3
<1> QED BY <1>1, <1>2

\* Division rounded down and up gives a number.
LEMMA Rounded ==
    ASSUME NEW a \in Nat, NEW b \in Nat \ {0}
    PROVE  /\ a \div b \in Nat
           /\ CeilDiv(a, b) \in Nat
           /\ (a \div b) * b <= a
<1>1. \A m \in Nat : m \div b \in Nat /\ m = b * (m \div b) + (m % b) /\ m % b \in Nat
    OBVIOUS
<1>2. a + b - 1 \in Nat
    OBVIOUS
<1>3. CeilDiv(a, b) \in Nat
    BY <1>1, <1>2 DEF CeilDiv
<1>4. (a \div b) * b <= a
    BY <1>1
<1> QED BY <1>1, <1>3, <1>4

\* A total of amounts is an amount.
LEMMA TotalType ==
    ASSUME NEW D, IsFiniteSet(D), NEW s \in [D -> Nat]
    PROVE  Total(s) \in Nat
<1>1. PICK h : Sums(h, s, D) /\ Total(s) = h[D]
    BY TotalDefined
<1> QED BY <1>1 DEF Sums

\* So is the total of a list.
LEMMA SumType ==
    ASSUME NEW n \in Nat, NEW s \in [1..n -> Nat]
    PROVE  Total(s) \in Nat
<1> DEFINE D == 1..n
<1>1. IsFiniteSet(D)
    BY FS_Interval
<1>2. s \in [D -> Nat]
    OBVIOUS
<1> HIDE DEF D
<1> QED BY <1>1, <1>2, TotalType

\* Both limits of a routing shard are at least one: the token limit has a
\* floor, and the card limit is the maximum of one and the quotient.
LEMMA LimitsType ==
    ASSUME NEW cfg \in [Tasks -> Settings]
    PROVE  /\ RouteShardLimits(cfg).tokens \in Nat \ {0}
           /\ RouteShardLimits(cfg).cards \in Nat \ {0}
<1>1. cfg["route"].maxTokens \in Nat
    BY DEF Tasks, Settings
<1> DEFINE n == cfg["route"].maxTokens - OutputReserve
           q == n \div DecisionTokens
<1>2. n \in Int /\ DecisionTokens \in Nat \ {0}
    BY <1>1, BudgetAssumption
<1>3. q \in Int
    BY <1>2
<1>4. RouteShardLimits(cfg).cards = Larger(1, q)
    BY DEF RouteShardLimits
<1> HIDE DEF q
<1>5. Larger(1, q) \in Nat \ {0}
    BY <1>3 DEF Larger
<1>6. RouteShardLimits(cfg).tokens = Larger(RouteWindow - RouteOverhead, MinRouteInput)
    BY DEF RouteShardLimits
<1>7. RouteWindow - RouteOverhead \in Int /\ MinRouteInput \in Nat \ {0}
    BY BudgetAssumption
<1>8. Larger(RouteWindow - RouteOverhead, MinRouteInput) \in Nat \ {0}
    BY <1>7 DEF Larger
<1> QED BY <1>4, <1>5, <1>6, <1>8

\* The projection of the cards and the routing is an amount.
LEMMA Pass1EstimateType ==
    ASSUME config \in [Tasks -> Settings], parts \in [Files -> 1..MaxParts]
    PROVE  Pass1Estimate.usd \in Nat
<1> DEFINE fs  == InOrder(NeedCards)
           pending == [i \in DOMAIN fs |-> parts[fs[i]]]
           n   == Cardinality(NeedCards)
           in  == NFiles * config["catalog"].maxTokens
           lim == RouteShardLimits(config)
           sh  == IF NFiles = 0 THEN 0
                  ELSE Larger(CeilDiv(in, lim.tokens), CeilDiv(NFiles, lim.cards))
           a == config["catalog"].maxTokens * Len(pending)
           b == config["route"].maxTokens * sh
<1>1. fs \in [1..n -> NeedCards] /\ n \in Nat /\ NeedCards \in SUBSET Files
    BY InOrderLists DEF NeedCards
<1>2. \A x \in 1..MaxParts : x \in Nat
    OBVIOUS
<1> HIDE DEF fs, n
<1>3. pending \in [1..n -> Nat] /\ DOMAIN pending = 1..n
    BY <1>1, <1>2
<1> HIDE DEF pending
<1>4. Total(pending) \in Nat /\ Len(pending) \in Nat
    <2>1. Len(pending) = n
        BY <1>1, <1>3
    <2> QED BY <1>1, <1>3, <2>1, SumType
<1>5. config["catalog"].maxTokens \in Nat /\ config["route"].maxTokens \in Nat
    BY DEF Tasks, Settings
<1>6. in \in Nat
    BY <1>5
<1>7. sh \in Nat
    <2>1. lim.tokens \in Nat \ {0} /\ lim.cards \in Nat \ {0}
        BY LimitsType
    <2> HIDE DEF in, lim
    <2>2. CeilDiv(in, lim.tokens) \in Nat /\ CeilDiv(NFiles, lim.cards) \in Nat
        BY <1>6, <2>1, Rounded
    <2> QED BY <2>2 DEF Larger
<1>8. a \in Nat /\ b \in Nat
    BY <1>4, <1>5, <1>7
<1>9. Pass1Estimate.usd = Usd(config, "catalog", Total(pending), a) + Usd(config, "route", in, b)
    BY DEF Pass1Estimate, EstimatePass1, pending, fs
<1> HIDE DEF a, b, in
<1>10. /\ Usd(config, "catalog", Total(pending), a) \in Nat
       /\ Usd(config, "route", in, b) \in Nat
    BY <1>4, <1>6, <1>8, UsdType DEF Tasks
<1> QED BY <1>9, <1>10

\* The projection of the reading is an amount.
LEMMA Pass2EstimateType ==
    ASSUME config \in [Tasks -> Settings], parts \in [Files -> 1..MaxParts]
    PROVE  Pass2Estimate.usd \in Nat
<1> DEFINE fs == InOrder(ToRead)
           n  == Cardinality(ToRead)
           sections == [i \in DOMAIN fs |-> [s \in 1..parts[fs[i]] |-> 1]]
           calls == Total([i \in DOMAIN sections |-> Len(sections[i])])
           sizes == Total([i \in DOMAIN sections |-> Total(sections[i])])
           in  == sizes + calls * ExtractOverhead
           out == config["extract"].maxTokens * calls
<1>1. fs \in [1..n -> ToRead] /\ n \in Nat /\ ToRead \in SUBSET Files
    BY InOrderLists DEF ToRead
<1> HIDE DEF fs, n
<1>2. \A i \in 1..n : parts[fs[i]] \in Nat
    BY <1>1
<1>3. DOMAIN sections = 1..n /\ \A i \in 1..n : sections[i] \in [1..parts[fs[i]] -> Nat]
    BY <1>1
<1> HIDE DEF sections
<1>4. \A i \in 1..n : Len(sections[i]) \in Nat /\ Total(sections[i]) \in Nat
    <2> SUFFICES ASSUME NEW i \in 1..n
                 PROVE  Len(sections[i]) \in Nat /\ Total(sections[i]) \in Nat
        OBVIOUS
    <2>1. Len(sections[i]) = parts[fs[i]]
        BY <1>2, <1>3
    <2> QED BY <1>2, <1>3, <2>1, SumType
<1>5. calls \in Nat /\ sizes \in Nat
    <2>1. /\ [i \in DOMAIN sections |-> Len(sections[i])] \in [1..n -> Nat]
          /\ [i \in DOMAIN sections |-> Total(sections[i])] \in [1..n -> Nat]
        BY <1>3, <1>4
    <2> QED BY <1>1, <2>1, SumType
<1> HIDE DEF calls, sizes
<1>6. config["extract"].maxTokens \in Nat /\ config["synthesize"].maxTokens \in Nat
    BY DEF Tasks, Settings
<1>7. in \in Nat /\ out \in Nat
    <2>1. ExtractOverhead \in Nat
        BY BudgetAssumption
    <2>2. calls * ExtractOverhead \in Nat
        BY <1>5, <2>1
    <2> QED BY <1>5, <1>6, <2>2
<1>8. Pass2Estimate.usd = Usd(config, "extract", in, out)
                          + Usd(config, "synthesize", out, config["synthesize"].maxTokens)
    BY DEF Pass2Estimate, EstimateQuery, sections, fs, calls, sizes
<1> HIDE DEF in, out
<1>9. /\ Usd(config, "extract", in, out) \in Nat
      /\ Usd(config, "synthesize", out, config["synthesize"].maxTokens) \in Nat
    BY <1>6, <1>7, UsdType DEF Tasks
<1> QED BY <1>8, <1>9

----------------------------------------------------------------------------
(* Shards.                                                                 *)

\* One more card adds its own tokens to the shard's.
LEMMA TokensAppend ==
    ASSUME card \in [Files -> Cards \cup {Nil}],
           NEW sh \in Seq(Carded), NEW f \in Carded
    PROVE  /\ Tokens(sh) \in Nat
           /\ Tokens(Append(sh, f)) = Tokens(sh) + card[f].size
<1> DEFINE size(x) == card[x].size
           sizes == [i \in DOMAIN sh |-> size(sh[i])]
           n == Len(sh)
           more == Append(sh, f)
<1>1. \A x \in Carded : size(x) \in Nat
    BY RoutedAssumption DEF Carded, Cards
<1>2. n \in Nat /\ DOMAIN sh = 1..n /\ \A i \in 1..n : sh[i] \in Carded
    OBVIOUS
<1>3. DOMAIN more = 1..(n + 1) /\ more[n + 1] = f /\ \A i \in 1..n : more[i] = sh[i]
    OBVIOUS
<1>4. Tokens(sh) = Total(sizes) /\ Tokens(more) = Total([i \in DOMAIN more |-> size(more[i])])
    BY DEF Tokens
<1> HIDE DEF size, n, more
<1>5. sizes \in Seq(Nat) /\ DOMAIN sizes = 1..n /\ Len(sizes) = n
    <2>1. sizes \in [1..n -> Nat]
        BY <1>1, <1>2
    <2> QED BY <1>2, <2>1
<1>6. \A i \in 1..n : sizes[i] = size(sh[i])
    BY <1>2
<1> HIDE DEF sizes
<1>7. Append(sizes, size(f)) = [i \in DOMAIN more |-> size(more[i])]
    <2>1. Append(sizes, size(f)) \in [1..(n + 1) -> Nat]
        <3> DEFINE q == Append(sizes, size(f))
        <3>1. q \in Seq(Nat) /\ Len(q) = n + 1
            BY <1>1, <1>5
        <3> HIDE DEF q
        <3>2. q \in [1..(n + 1) -> Nat]
            BY <3>1
        <3> QED BY <3>2 DEF q
    <2>2. \A i \in 1..(n + 1) : Append(sizes, size(f))[i] = size(more[i])
        BY <1>1, <1>2, <1>3, <1>5, <1>6
    <2> QED BY <1>3, <2>1, <2>2
<1>8. Total(Append(sizes, size(f))) = Total(sizes) + size(f) /\ Total(sizes) \in Nat
    BY <1>1, <1>5, TotalAppend
<1> QED BY <1>4, <1>7, <1>8 DEF size, more

ShardFits(sh) ==
    Len(sh) > 1 =>
        /\ Tokens(sh) <= RouteShardLimits(config).tokens
        /\ Len(sh) <= RouteShardLimits(config).cards

\* A card put into a shard leaves the order and the limits as they are.
LEMMA ShardOneKeeps ==
    ASSUME config \in [Tasks -> Settings], card \in [Files -> Cards \cup {Nil}],
           NEW ss \in Seq(Seq(Carded)), ss # <<>>, NEW f \in Carded
    PROVE  /\ ShardOne(ss, f) \in Seq(Seq(Carded))
           /\ ShardOne(ss, f) # <<>>
           /\ FlattenSeq(ShardOne(ss, f)) = Append(FlattenSeq(ss), f)
           /\ (\A i \in DOMAIN ss : ShardFits(ss[i])) =>
              (\A i \in DOMAIN ShardOne(ss, f) : ShardFits(ShardOne(ss, f)[i]))
<1> DEFINE front == Front(ss)
           last  == Last(ss)
           n == Len(ss)
<1>1. /\ front \in Seq(Seq(Carded)) /\ last \in Seq(Carded) /\ ss = Append(front, last)
      /\ Len(front) = n - 1 /\ n \in Nat /\ n # 0
    <2>1. ss \in Seq(Seq(Carded)) /\ n \in Nat /\ n # 0
        OBVIOUS
    <2> QED BY <2>1, AppendedApart
<1>2. FlattenSeq(ss) \in Seq(Carded) /\ FlattenSeq(front) \in Seq(Carded)
    BY <1>1, FlattenType
<1>3. <<f>> \in Seq(Carded) /\ Append(last, f) \in Seq(Carded)
    BY <1>1
<1> HIDE DEF front, last, n
<1>4. CASE last = <<>> \/ Fits(last, f)
    <2> DEFINE sh == Append(last, f)
               r  == Append(front, sh)
    <2>1. ShardOne(ss, f) = r
        BY <1>4 DEF ShardOne, front, last
    <2>2. sh \in Seq(Carded) /\ Len(sh) = Len(last) + 1 /\ Len(last) \in Nat
          /\ (last = <<>> <=> Len(last) = 0)
        BY <1>1, <1>3
    <2>3. r \in Seq(Seq(Carded)) /\ r # <<>> /\ DOMAIN r = 1..n /\ r[n] = sh
          /\ \A i \in 1..(n - 1) : r[i] = ss[i]
        BY <1>1, <1>3
    <2>4. FlattenSeq(r) = FlattenSeq(front) \o sh /\ FlattenSeq(ss) = FlattenSeq(front) \o last
        BY <1>1, <1>3, FlattenAppend
    <2>5. sh = last \o <<f>>
        BY <1>1, AppendIsConcat
    <2> DEFINE a == FlattenSeq(front)
    <2>6. a \in Seq(Carded)
        BY <1>2
    <2> HIDE DEF a
    <2>7. (a \o last) \o <<f>> = a \o (last \o <<f>>)
        <3>1. a \in Seq(Carded) /\ last \in Seq(Carded) /\ <<f>> \in Seq(Carded)
            BY <1>1, <1>3, <2>6
        <3> QED BY ONLY <3>1, ConcatAssociative
    <2>8. Append(a \o last, f) = (a \o last) \o <<f>>
        <3>1. a \o last \in Seq(Carded)
            BY <1>1, <2>6, ConcatProperties
        <3> QED BY <3>1, AppendIsConcat
    <2>9. FlattenSeq(r) = Append(FlattenSeq(ss), f)
        BY <2>4, <2>5, <2>7, <2>8 DEF a
    <2>10. ASSUME \A i \in DOMAIN ss : ShardFits(ss[i])
           PROVE  \A i \in DOMAIN r : ShardFits(r[i])
        <3> HIDE DEF r, sh
        <3> SUFFICES ASSUME NEW i \in 1..n PROVE ShardFits(r[i])
            BY <2>3
        <3>1. CASE i # n
            <4>1. i \in 1..(n - 1) /\ i \in DOMAIN ss
                BY <1>1, <3>1 DEF n
            <4> QED BY <2>3, <2>10, <4>1
        <3>2. CASE i = n
            <4>0. r[i] = sh /\ Len(sh) \in Nat
                BY <2>2, <2>3, <3>2
            <4>1. CASE last = <<>>
                <5>1. Len(sh) = 1
                    BY <2>2, <4>1
                <5>2. ShardFits(sh)
                    BY <5>1 DEF ShardFits
                <5> QED BY <4>0, <5>2
            <4>2. CASE Fits(last, f)
                <5>1. Tokens(sh) = Tokens(last) + card[f].size
                    BY <1>1, TokensAppend DEF sh
                <5>2. Tokens(sh) <= RouteShardLimits(config).tokens
                    BY <4>2, <5>1 DEF Fits
                <5>3. Len(last) < RouteShardLimits(config).cards
                    BY <4>2 DEF Fits
                <5>4. RouteShardLimits(config).cards \in Nat
                    BY LimitsType
                <5>5. Len(sh) <= RouteShardLimits(config).cards
                    BY <2>2, <5>3, <5>4
                <5>6. ShardFits(sh)
                    BY <5>2, <5>5 DEF ShardFits
                <5> QED BY <4>0, <5>6
            <4> QED BY <1>4, <4>1, <4>2
        <3> QED BY <3>1, <3>2
    <2> QED BY <2>1, <2>3, <2>9, <2>10
<1>5. CASE ~(last = <<>> \/ Fits(last, f))
    <2> DEFINE r == Append(ss, <<f>>)
    <2>1. ShardOne(ss, f) = r
        BY <1>5 DEF ShardOne, last
    <2>2. r \in Seq(Seq(Carded)) /\ r # <<>> /\ DOMAIN r = 1..(n + 1) /\ r[n + 1] = <<f>>
          /\ \A i \in 1..n : r[i] = ss[i]
        BY <1>1, <1>3 DEF n
    <2>3. FlattenSeq(r) = FlattenSeq(ss) \o <<f>>
        BY <1>3, FlattenAppend
    <2>4. FlattenSeq(r) = Append(FlattenSeq(ss), f)
        BY <1>2, <2>3, AppendIsConcat
    <2>5. ASSUME \A i \in DOMAIN ss : ShardFits(ss[i])
          PROVE  \A i \in DOMAIN r : ShardFits(r[i])
        <3> HIDE DEF r
        <3> SUFFICES ASSUME NEW i \in 1..(n + 1) PROVE ShardFits(r[i])
            BY <2>2
        <3>1. CASE i # n + 1
            <4>1. i \in 1..n /\ i \in DOMAIN ss
                BY <1>1, <3>1 DEF n
            <4> QED BY <2>2, <2>5, <4>1
        <3>2. CASE i = n + 1
            <4>1. Len(<<f>>) = 1
                OBVIOUS
            <4>2. ShardFits(<<f>>)
                BY <4>1 DEF ShardFits
            <4> QED BY <2>2, <3>2, <4>2
        <3> QED BY <3>1, <3>2
    <2> QED BY <2>1, <2>2, <2>4, <2>5
<1> QED BY <1>4, <1>5

\* The definition inside ShardCards.
ShardFold(files, h) ==
    h = [s \in SUBSET DOMAIN files |->
            IF s = {} THEN << <<>> >> ELSE ShardOne(h[s \ {Max(s)}], files[Max(s)])]

\* The shards of cards are the cards in their order, and each shard of more
\* than one card fits.
LEMMA ShardCardsKeep ==
    ASSUME config \in [Tasks -> Settings], card \in [Files -> Cards \cup {Nil}],
           NEW files \in Seq(Carded)
    PROVE  /\ ShardCards(files) \in Seq(Seq(Carded))
           /\ FlattenSeq(ShardCards(files)) = files
           /\ \A i \in DOMAIN ShardCards(files) : ShardFits(ShardCards(files)[i])
<1> DEFINE n == Len(files)
           C == Carded
           V == {ss \in Seq(Seq(C)) : ss # <<>>}
           base == << <<>> >>
           op == [x \in (1..n) \X V |-> ShardOne(x[2], files[x[1]])]
           it == CHOOSE h : ShardFold(files, h)
           upto(k) == [i \in 1..k |-> files[i]]
           Good(ss, k) ==
              /\ ss \in V
              /\ FlattenSeq(ss) = upto(k)
              /\ \A i \in DOMAIN ss : ShardFits(ss[i])
           P == {k \in Nat : k <= n => Good(it[1..k], k)}
<1>1. n \in Nat /\ DOMAIN files = 1..n /\ files = upto(n) /\ \A i \in 1..n : files[i] \in C
    OBVIOUS
<1>2. base \in V
    OBVIOUS
<1>3. \A ss \in V, f \in C : ShardOne(ss, f) \in V
    BY ShardOneKeeps
<1> HIDE DEF n, V, C
<1>4. op \in [(1..n) \X V -> V]
    BY <1>1, <1>3
<1> HIDE DEF op
<1>5. \E h : ShardFold(files, h)
    <2> HIDE DEF base
    <2>1. PICK h : IsLeftFold(h, n, V, base, op)
        BY <1>1, <1>2, <1>4, LeftFoldExists
    <2>2. \A s \in SUBSET (1..n) :
              h[s] = IF s = {} THEN base ELSE ShardOne(h[s \ {Max(s)}], files[Max(s)])
        <3> SUFFICES ASSUME NEW s \in SUBSET (1..n)
                     PROVE  h[s] = IF s = {} THEN base
                                   ELSE ShardOne(h[s \ {Max(s)}], files[Max(s)])
            OBVIOUS
        <3>1. h[s] = IF s = {} THEN base ELSE op[<<Max(s), h[s \ {Max(s)}]>>]
            BY <2>1 DEF IsLeftFold
        <3>2. s # {} => Max(s) \in 1..n /\ h[s \ {Max(s)}] \in V
            BY <2>1 DEF IsLeftFold
        <3> QED BY <3>1, <3>2 DEF op
    <2>3. h = [s \in SUBSET (1..n) |-> h[s]]
        BY <2>1 DEF IsLeftFold
    <2>4. h = [s \in SUBSET (1..n) |->
                IF s = {} THEN base ELSE ShardOne(h[s \ {Max(s)}], files[Max(s)])]
        BY <2>2, <2>3
    <2>5. ShardFold(files, h)
        BY <1>1, <2>4 DEF ShardFold, base
    <2> QED BY <2>5
<1>6. ShardFold(files, it)
    BY <1>5
<1>7. ShardCards(files) = it[1..n]
    BY <1>1 DEF ShardCards, it, ShardFold, FoldLeft, MapThenFoldSet
<1> HIDE DEF it
<1>8. 0 \in P
    <2>1. it[1..0] = base
        BY <1>1, <1>6 DEF ShardFold
    <2>2. FlattenSeq(base) = <<>>
        <3>1. <<>> \in Seq(Seq(C)) /\ <<>> \in Seq(C) /\ base = Append(<<>>, <<>>)
            OBVIOUS
        <3>2. FlattenSeq(base) = FlattenSeq(<<>>) \o <<>>
            BY <3>1, FlattenAppend
        <3> QED BY <3>2 DEF FlattenSeq
    <2>3. upto(0) = <<>>
        OBVIOUS
    <2>4. \A i \in DOMAIN base : ShardFits(base[i])
        <3>1. DOMAIN base = {1} /\ base[1] = <<>> /\ Len(<<>>) = 0
            OBVIOUS
        <3>2. ShardFits(<<>>)
            BY <3>1 DEF ShardFits
        <3> QED BY <3>1, <3>2
    <2> HIDE DEF base, upto
    <2> QED BY <1>2, <2>1, <2>2, <2>3, <2>4
<1>9. ASSUME NEW k \in Nat, k \in P PROVE k + 1 \in P
    <2> SUFFICES ASSUME k + 1 <= n PROVE Good(it[1..(k + 1)], k + 1)
        OBVIOUS
    <2> DEFINE ss == it[1..k]
               f  == files[k + 1]
    <2>0. k <= n /\ k + 1 \in 1..n /\ f \in C
        BY <1>1
    <2>1. Max(1..(k + 1)) = k + 1 /\ (1..(k + 1)) \ {Max(1..(k + 1))} = 1..k
        BY MaxOfInterval
    <2>2. 1..(k + 1) \in SUBSET (1..n) /\ 1..(k + 1) # {}
        <3>1. k + 1 \in 1..(k + 1) /\ \A i \in 1..(k + 1) : i \in 1..n
            BY <1>1
        <3> QED BY <3>1
    <2>3. it[1..(k + 1)] = ShardOne(ss, f)
        BY <1>1, <1>6, <2>1, <2>2 DEF ShardFold
    <2>4. Good(ss, k)
        BY <1>9, <2>0
    <2> HIDE DEF ss, f
    <2>5. /\ ShardOne(ss, f) \in V
          /\ FlattenSeq(ShardOne(ss, f)) = Append(FlattenSeq(ss), f)
          /\ (\A i \in DOMAIN ss : ShardFits(ss[i])) =>
             (\A i \in DOMAIN ShardOne(ss, f) : ShardFits(ShardOne(ss, f)[i]))
        BY <2>0, <2>4, ShardOneKeeps DEF V, C
    <2>6. Append(upto(k), f) = upto(k + 1)
        <3>1. \A i \in 1..k : i \in 1..n
            BY <1>1, <2>0
        <3>2. upto(k) \in [1..k -> C]
            BY <1>1, <3>1
        <3>3. upto(k) \in Seq(C) /\ Len(upto(k)) = k
            BY <3>2
        <3>4. \A i \in 1..k : upto(k)[i] = files[i]
            OBVIOUS
        <3> DEFINE u == upto(k)
                   q == Append(u, f)
        <3> HIDE DEF u
        <3>5. q \in Seq(C) /\ Len(q) = k + 1 /\ q[k + 1] = f /\ \A i \in 1..k : q[i] = u[i]
            BY <2>0, <3>3 DEF u
        <3> HIDE DEF q
        <3>6. q \in [1..(k + 1) -> C]
            BY <3>5
        <3>7. \A i \in 1..(k + 1) : q[i] = files[i]
            BY <3>4, <3>5 DEF u, f
        <3>8. q = upto(k + 1)
            BY <3>6, <3>7
        <3> QED BY <3>8 DEF q, u
    <2> HIDE DEF upto
    <2> QED BY <2>3, <2>4, <2>5, <2>6
<1> HIDE DEF P
<1>10. n \in P
    BY <1>1, <1>8, <1>9, CountingUp
<1>11. Good(it[1..n], n)
    BY <1>1, <1>10 DEF P
<1> HIDE DEF upto
<1> QED BY <1>1, <1>7, <1>11 DEF V, C

----------------------------------------------------------------------------
(* Types, and the progress bar.                                            *)

\* A configuration in use is one the schema accepts.
LEMMA ConfigTyped == config \in Configs => config \in [Tasks -> Settings]
BY ConfigAssumption

\* What has been read of the files of the plan.
ReadSoFar ==
    [f \in Files |->
        IF plan[f] = "done" THEN parts[f] ELSE IF plan[f] = "todo" THEN judged[f].n ELSE 0]

Planned == [f \in Files |-> IF plan[f] \in {"todo", "done"} THEN parts[f] ELSE 0]

\* Before extraction nothing is read; during it the bar shows the sum of what
\* has been read of each file, all of it of the files that have ended.
ProgressInv ==
    /\ pc \in {"gate1", "cards", "route", "gate2"} =>
          done = 0 /\ \A f \in Files : judged[f].n = 0
    /\ pc = "gate2" => \A f \in Files : plan[f] # "done"
    /\ pc # "idle" => exit = "none"
    /\ pc = "extract" =>
          /\ done = Total(ReadSoFar)
          /\ \A f \in Files : plan[f] = "todo" => judged[f].n < parts[f]

\* At the start of extraction the sum is nothing.
LEMMA NothingReadYet ==
    ASSUME NEW s \in [Files -> Nat], \A f \in Files : s[f] = 0
    PROVE  Total(s) = 0
<1>1. Total(s) \in Nat
    BY FilesFinite, TotalType
<1>2. Total(s) <= Cardinality(Files) * 0
    BY FilesFinite, TotalBounded
<1>3. Cardinality(Files) \in Nat
    BY FilesFinite, RoutedAssumption
<1> QED BY <1>1, <1>2, <1>3

\* Sections read and planned are counts of a file's parts.
LEMMA ReadTypes ==
    ASSUME TypeOK
    PROVE  /\ ReadSoFar \in [Files -> 0..MaxParts] /\ ReadSoFar \in [Files -> Nat]
           /\ Planned \in [Files -> 0..MaxParts] /\ Planned \in [Files -> Nat]
           /\ Total(ReadSoFar) \in 0..(NFiles * MaxParts)
<1>1. /\ ReadSoFar \in [Files -> 0..MaxParts]
      /\ Planned \in [Files -> 0..MaxParts]
    BY DEF TypeOK, ReadSoFar, Planned
<1>2. ReadSoFar \in [Files -> Nat] /\ Planned \in [Files -> Nat]
    BY <1>1
<1>3. \A f \in Files : ReadSoFar[f] <= MaxParts
    BY <1>1
<1>4. Total(ReadSoFar) <= Cardinality(Files) * MaxParts
    <2> DEFINE s == ReadSoFar
    <2>1. s \in [Files -> Nat] /\ \A f \in Files : s[f] <= MaxParts
        BY <1>2, <1>3
    <2> HIDE DEF s
    <2>2. MaxParts \in Nat
        BY RoutedAssumption
    <2>3. Total(s) <= Cardinality(Files) * MaxParts
        BY <2>1, <2>2, FilesFinite, TotalBounded
    <2> QED BY <2>3 DEF s
<1>5. Total(ReadSoFar) \in Nat
    BY <1>2, FilesFinite, TotalType
<1>6. NFiles * MaxParts \in Nat
    BY RoutedAssumption
<1> QED BY <1>1, <1>2, <1>4, <1>5, <1>6, FilesFinite

\* The bar is honest whenever its sum is right.
LEMMA HonestFromSum ==
    ASSUME TypeOK, ProgressInv
    PROVE  ProgressHonest
<1> SUFFICES ASSUME pc = "extract"
             PROVE  done <= Total(Planned) /\ (done = Total(Planned) <=> ToRead = {})
    BY DEF ProgressHonest, Planned
<1> DEFINE s == ReadSoFar
           r == Planned
<1>1. s \in [Files -> Nat] /\ r \in [Files -> Nat] /\ done = Total(s)
    BY ReadTypes DEF ProgressInv
<1>2. \A f \in Files : s[f] <= r[f] /\ (s[f] = r[f] <=> plan[f] # "todo")
    BY DEF TypeOK, ProgressInv, ReadSoFar, Planned
<1>3. ToRead = {} <=> \A f \in Files : plan[f] # "todo"
    BY DEF ToRead
<1> HIDE DEF s, r
<1>4. Total(s) <= Total(r) /\ (Total(s) = Total(r) => \A f \in Files : s[f] = r[f])
    BY <1>1, <1>2, FilesFinite, TotalMonotone
<1>5. (\A f \in Files : s[f] = r[f]) => s = r
    BY <1>1
<1> QED BY <1>1, <1>2, <1>3, <1>4, <1>5 DEF r

ReadInv == TypeOK /\ ProgressInv

\* The strengthening holds at the start.
LEMMA ReadInit == Init => ReadInv
<1> SUFFICES ASSUME Init PROVE ReadInv
    OBVIOUS
<1> USE DEF Init, NothingYet
<1>1. TypeOK
    <2>1. 0 \in 0..(NFiles * MaxParts) /\ 0 \in 0..MaxParts
        BY RoutedAssumption
    <2> QED BY <2>1 DEF TypeOK
<1>2. ProgressInv
    BY DEF ProgressInv
<1> QED BY <1>1, <1>2 DEF ReadInv

\* The fields a run starts afresh.
LEMMA ForgetTypes ==
    ASSUME Forget
    PROVE  /\ chunk' \in [Files -> [1..MaxParts -> {"none", "open", "back", "lost"}]]
           /\ cardFailed' = {} /\ included' = {} /\ decided' = {} /\ refused' = {}
           /\ failures' = {} /\ shards' = <<>> /\ asked' = {} /\ entered' = {}
           /\ plan' \in [Files -> {"out", "cached", "todo", "done"}]
           /\ judged' \in [Files -> [n : 0..MaxParts, how : SUBSET Kinds]]
           /\ \A f \in Files : judged'[f].n = 0
           /\ shown' \in [Files -> {"none", "partial", "whole"}]
           /\ done' = 0 /\ done' \in 0..(NFiles * MaxParts)
           /\ usd' = 0
<1>1. 0 \in 0..(NFiles * MaxParts) /\ 0 \in 0..MaxParts
    BY RoutedAssumption
<1> QED BY <1>1 DEF Forget

\* A gate names one of the two stages and leaves the spending an amount.
LEMMA GateTypes ==
    ASSUME NEW stage \in {"pass1", "pass2"}, NEW estimate, NEW prior,
           estimate.usd \in Nat, prior \in Nat, TypeOK,
           Gate(stage, estimate, prior)
    PROVE  asked' \cup entered' \subseteq {"pass1", "pass2"} /\ usd' \in Nat
<1>1. asked \cup entered \subseteq {"pass1", "pass2"} /\ usd \in Nat
    BY DEF TypeOK
<1>2. prior + estimate.usd \in Nat
    OBVIOUS
<1> QED BY <1>1, <1>2 DEF Gate, gates

\* A step that reads keeps the sum in step with what is read.
LEMMA ReadSectionKeeps ==
    ASSUME ReadInv, ReadSection
    PROVE  ReadInv'
<1>1. PICK f \in ToRead, k \in Kinds :
        LET n   == judged[f].n + 1
            how == judged[f].how \cup {k}
        IN IF n = parts[f]
           THEN /\ FileEnds(f, how)
                /\ judged' = [judged EXCEPT ![f] = [n |-> n, how |-> {}]]
                /\ done' = done + 1 + Credit(f, n)
           ELSE /\ judged' = [judged EXCEPT ![f] = [n |-> n, how |-> how]]
                /\ done' = done + 1
                /\ UNCHANGED <<shown, failures, verdict, plan>>
    BY DEF ReadSection
<1> DEFINE n == judged[f].n + 1
           how == judged[f].how \cup {k}
           r == ReadSoFar
<1>2. /\ UNCHANGED <<config, parts, card, pc, mode, chunk, cardFailed, shards, included,
                     decided, refused, asked, entered, usd, exit>>
      /\ pc = "extract" /\ f \in Files /\ plan[f] = "todo"
    BY DEF ReadSection, pass1, gates, ToRead
<1>3. /\ judged[f] \in [n : 0..MaxParts, how : SUBSET Kinds] /\ judged[f].n < parts[f]
      /\ parts[f] \in 1..MaxParts
    BY <1>2 DEF ReadInv, TypeOK, ProgressInv
<1>4. n \in 1..MaxParts /\ n <= parts[f] /\ how \in SUBSET Kinds /\ judged[f].n \in Nat
    BY <1>3, RoutedAssumption
<1>5. r \in [Files -> Nat] /\ r[f] = judged[f].n /\ done = Total(r) /\ done \in Nat
    <2>1. r \in [Files -> Nat] /\ done = Total(r)
        BY <1>2, ReadTypes DEF ReadInv, ProgressInv
    <2>2. r[f] = judged[f].n
        BY <1>2 DEF ReadSoFar
    <2>3. done \in Nat
        BY DEF ReadInv, TypeOK
    <2> QED BY <2>1, <2>2, <2>3
<1>6. judged' = [judged EXCEPT ![f] = judged'[f]] /\ judged'[f] \in [n : 0..MaxParts, how : SUBSET Kinds]
      /\ judged'[f].n = n
    <2>1. judged \in [Files -> [n : 0..MaxParts, how : SUBSET Kinds]]
        BY DEF ReadInv, TypeOK
    <2>2. \/ judged' = [judged EXCEPT ![f] = [n |-> n, how |-> {}]]
          \/ judged' = [judged EXCEPT ![f] = [n |-> n, how |-> how]]
        BY <1>1
    <2>3. n \in 0..MaxParts
        BY <1>4
    <2> HIDE DEF n, how
    <2> QED BY <1>2, <1>4, <2>1, <2>2, <2>3
<1>7. done' = done + 1
    <2>1. CASE n = parts[f]
        <3>1. done' = done + 1 + (parts[f] - n)
            BY <1>1, <2>1 DEF Credit
        <3> QED BY <1>3, <1>5, <2>1, <3>1
    <2>2. CASE n # parts[f]
        BY <1>1, <2>2
    <2> QED BY <2>1, <2>2
<1>8. /\ plan' = [plan EXCEPT ![f] = IF n = parts[f] THEN "done" ELSE "todo"]
      /\ shown' \in [Files -> {"none", "partial", "whole"}]
      /\ failures' \subseteq Files
      /\ verdict' \in [Files -> BOOLEAN]
    <2>1. /\ plan \in [Files -> {"out", "cached", "todo", "done"}]
          /\ shown \in [Files -> {"none", "partial", "whole"}]
          /\ failures \subseteq Files
          /\ verdict \in [Files -> BOOLEAN]
        BY DEF ReadInv, TypeOK
    <2>2. CASE n = parts[f]
        <3>1. FileEnds(f, how)
            BY <1>1, <2>2
        <3> HIDE DEF n, how
        <3> QED BY <1>2, <2>1, <2>2, <3>1 DEF FileEnds
    <2>3. CASE n # parts[f]
        <3>1. UNCHANGED <<shown, failures, verdict, plan>>
            BY <1>1, <2>3
        <3> HIDE DEF n, how
        <3> QED BY <1>2, <2>1, <2>3, <3>1
    <2> QED BY <2>2, <2>3
<1>9. judged' \in [Files -> [n : 0..MaxParts, how : SUBSET Kinds]]
      /\ plan' \in [Files -> {"out", "cached", "todo", "done"}]
    BY <1>2, <1>6, <1>8 DEF ReadInv, TypeOK
<1>10. ReadSoFar' = [r EXCEPT ![f] = n]
    <2>1. \A g \in Files : ReadSoFar'[g] = IF g = f THEN n ELSE r[g]
        <3> SUFFICES ASSUME NEW g \in Files
                     PROVE  ReadSoFar'[g] = IF g = f THEN n ELSE r[g]
            OBVIOUS
        <3>1. CASE g = f
            <4>1. plan'[f] = IF n = parts[f] THEN "done" ELSE "todo"
                BY <1>2, <1>8 DEF ReadInv, TypeOK
            <4> QED BY <1>2, <1>6, <3>1, <4>1 DEF ReadSoFar
        <3>2. CASE g # f
            <4>1. plan'[g] = plan[g] /\ judged'[g] = judged[g]
                BY <1>2, <1>6, <1>8, <3>2 DEF ReadInv, TypeOK
            <4> QED BY <1>2, <3>2, <4>1 DEF ReadSoFar
        <3> QED BY <3>1, <3>2
    <2>2. ReadSoFar' = [g \in Files |-> ReadSoFar'[g]]
        BY DEF ReadSoFar
    <2>3. r = [g \in Files |-> r[g]]
        BY DEF ReadSoFar
    <2> HIDE DEF r, n
    <2>4. [r EXCEPT ![f] = n] = [g \in Files |-> IF g = f THEN n ELSE r[g]]
        BY <2>3
    <2> QED BY <2>1, <2>2, <2>4
<1>11. done' = Total(ReadSoFar')
    <2> HIDE DEF r, n
    <2>1. n \in Nat /\ IsFiniteSet(Files)
        BY <1>4, FilesFinite
    <2> DEFINE r2 == [r EXCEPT ![f] = n]
    <2>2. r2 \in [Files -> Nat] /\ r2[f] = n /\ \A g \in Files \ {f} : r2[g] = r[g]
        BY <1>2, <1>5, <2>1
    <2> HIDE DEF r2
    <2>3. PICK rest \in Nat : Total(r) = r[f] + rest /\ Total(r2) = r2[f] + rest
        BY <1>2, <1>5, <2>1, <2>2, TotalUpdate
    <2>4. r[f] + 1 = n /\ r[f] \in Nat
        BY <1>4, <1>5 DEF n
    <2>5. done' = Total(r) + 1
        BY <1>5, <1>7
    <2> DEFINE x == r[f]
    <2>6. done' = (x + rest) + 1 /\ Total(r2) = (x + 1) + rest /\ x \in Nat
        BY <2>2, <2>3, <2>4, <2>5
    <2> HIDE DEF x
    <2>7. done' = Total(r2)
        BY <2>6
    <2> QED BY <1>10, <2>7 DEF r2
<1>12. \A g \in Files : plan'[g] = "todo" => judged'[g].n < parts'[g]
    <2> SUFFICES ASSUME NEW g \in Files, plan'[g] = "todo"
                 PROVE  judged'[g].n < parts[g]
        BY <1>2
    <2>1. CASE g = f
        <3>1. n # parts[f]
            BY <1>2, <1>8, <2>1 DEF ReadInv, TypeOK
        <3> QED BY <1>3, <1>4, <1>6, <2>1, <3>1
    <2>2. CASE g # f
        BY <1>2, <1>6, <1>8, <2>2 DEF ReadInv, TypeOK, ProgressInv
    <2> QED BY <2>1, <2>2
<1>13. ProgressInv'
    BY <1>2, <1>11, <1>12 DEF ReadInv, ProgressInv
<1>14. Total(ReadSoFar') \in 0..(NFiles * MaxParts)
    <2> DEFINE s == ReadSoFar'
    <2>1. \A g \in Files : s[g] \in 0..MaxParts
        BY <1>2, <1>9 DEF ReadSoFar, ReadInv, TypeOK
    <2>2. s = [g \in Files |-> s[g]]
        BY DEF ReadSoFar
    <2> HIDE DEF s
    <2>3. s \in [Files -> Nat] /\ \A g \in Files : s[g] <= MaxParts
        BY <2>1, <2>2
    <2>4. MaxParts \in Nat /\ Cardinality(Files) = NFiles /\ NFiles \in Nat
        BY RoutedAssumption, FilesFinite
    <2>5. Total(s) <= Cardinality(Files) * MaxParts
        BY <2>3, <2>4, FilesFinite, TotalBounded
    <2>6. Total(s) \in Nat
        BY <2>3, FilesFinite, TotalType
    <2>7. NFiles * MaxParts \in Nat
        BY <2>4
    <2>8. Total(s) \in 0..(NFiles * MaxParts)
        BY <2>4, <2>5, <2>6, <2>7
    <2> QED BY <2>8 DEF s
<1>15. TypeOK'
    BY <1>2, <1>8, <1>9, <1>11, <1>14 DEF ReadInv, TypeOK
<1> QED BY <1>13, <1>15 DEF ReadInv

\* A chunk's answer makes a card or nothing.
LEMMA CardTypes ==
    ASSUME TypeOK, ChunkBack
    PROVE  card' \in [Files -> Cards \cup {Nil}]
<1>1. PICK f \in Files : MakeCard(f)
    BY DEF ChunkBack
<1>2. Back(f) \in SUBSET (1..MaxParts) /\ card \in [Files -> Cards \cup {Nil}]
    BY DEF Back, TypeOK
<1>3. CASE Back(f) = 1..parts[f]
    <2>1. PICK s \in CardSizes : card' = [card EXCEPT ![f] = [of |-> Back(f), size |-> s]]
        BY <1>1, <1>3 DEF MakeCard
    <2>2. [of |-> Back(f), size |-> s] \in Cards
        BY <1>2 DEF Cards
    <2> QED BY <1>2, <2>1, <2>2
<1>4. CASE Back(f) # 1..parts[f]
    BY <1>1, <1>2, <1>4 DEF MakeCard
<1> QED BY <1>3, <1>4

\* Every step keeps the types and the progress bar honest.
LEMMA ReadNext == ReadInv /\ [Next]_vars => ReadInv'
<1> SUFFICES ASSUME ReadInv, [Next]_vars PROVE ReadInv'
    OBVIOUS
<1> USE DEF ReadInv
<1>0. config \in [Tasks -> Settings]
    BY ConfigTyped DEF TypeOK
<1>1. CASE Ask
    <2>1. Forget /\ UNCHANGED store /\ mode' \in {"sweep", "route", "estimate"}
          /\ pc' \in {"route", "gate1"} /\ exit' = "none"
        BY <1>1 DEF Ask
    <2>2. TypeOK'
        BY <2>1, ForgetTypes DEF TypeOK, store
    <2>3. ProgressInv'
        BY <2>1, ForgetTypes DEF ProgressInv
    <2> QED BY <2>2, <2>3
<1>2. CASE Pass1Gate
    <2>1. /\ UNCHANGED <<store, mode, cardFailed, shards, included, decided, refused, pass2>>
          /\ pc = "gate1" /\ pc' \in {"cards", "idle"} /\ exit' \in {"none", "error"}
          /\ (pc' # "idle" => exit' = "none")
        BY <1>2 DEF Pass1Gate, Gate, End, ProgressInv
    <2>2. chunk' \in [Files -> [1..MaxParts -> {"none", "open", "back", "lost"}]]
        BY <1>2 DEF Pass1Gate, TypeOK
    <2>3. Pass1Estimate.usd \in Nat
        BY <1>0, Pass1EstimateType DEF TypeOK
    <2>4. asked' \cup entered' \subseteq {"pass1", "pass2"} /\ usd' \in Nat
        BY <1>2, <2>3, GateTypes DEF Pass1Gate
    <2>5. TypeOK'
        BY <2>1, <2>2, <2>4 DEF TypeOK, store, pass2
    <2>6. ProgressInv'
        BY <2>1 DEF ProgressInv, pass2
    <2> QED BY <2>5, <2>6
<1>3. CASE ChunkBack
    <2>1. UNCHANGED <<config, parts, verdict, pc, mode, cardFailed, shards, included,
                      decided, refused, pass2, gates, exit>>
        BY <1>3 DEF ChunkBack
    <2>2. chunk' \in [Files -> [1..MaxParts -> {"none", "open", "back", "lost"}]]
        BY <1>3 DEF ChunkBack, TypeOK
    <2>3. TypeOK'
        BY <1>3, <2>1, <2>2, CardTypes DEF TypeOK, pass2, gates
    <2>4. ProgressInv'
        BY <2>1 DEF ProgressInv, ReadSoFar, pass2
    <2> QED BY <2>3, <2>4
<1>4. CASE ChunkLost
    <2>1. UNCHANGED <<store, pc, mode, shards, included, decided, refused, pass2, gates, exit>>
        BY <1>4 DEF ChunkLost
    <2>2. chunk' \in [Files -> [1..MaxParts -> {"none", "open", "back", "lost"}]]
          /\ cardFailed' \subseteq Files
        BY <1>4 DEF ChunkLost, TypeOK
    <2>3. TypeOK'
        BY <2>1, <2>2 DEF TypeOK, store, pass2, gates
    <2>4. ProgressInv'
        BY <2>1 DEF ProgressInv, ReadSoFar, pass2, store
    <2> QED BY <2>3, <2>4
<1>5. CASE StartRouting
    <2>1. /\ UNCHANGED <<store, mode, chunk, cardFailed, included, decided, refused,
                         pass2, gates, exit>>
          /\ pc = "cards" /\ pc' = "route"
          /\ shards' = IF Carded = {} THEN <<>> ELSE ShardCards(InOrder(Carded))
        BY <1>5 DEF StartRouting
    <2>2. shards' \in Seq(Seq(Files))
        <3>1. Carded \in SUBSET Files /\ InOrder(Carded) \in Seq(Carded)
            BY InOrderLists DEF Carded
        <3>2. ShardCards(InOrder(Carded)) \in Seq(Seq(Carded))
            BY <1>0, <3>1, ShardCardsKeep DEF TypeOK
        <3>3. \A s \in Seq(Seq(Carded)) : s \in Seq(Seq(Files))
            <4>1. \A s \in Seq(Carded) : s \in Seq(Files)
                BY <3>1
            <4> DEFINE A == Seq(Carded)
                       B == Seq(Files)
            <4>2. A \subseteq B
                BY <4>1
            <4> HIDE DEF A, B
            <4>3. \A s \in Seq(A) : s \in Seq(B)
                BY <4>2
            <4> QED BY <4>3 DEF A, B
        <3> QED BY <2>1, <3>2, <3>3
    <2>3. TypeOK'
        BY <2>1, <2>2 DEF TypeOK, store, pass2, gates
    <2>4. ProgressInv'
        BY <2>1 DEF ProgressInv, pass2
    <2> QED BY <2>3, <2>4
<1>6. CASE RouteShard
    <2>1. /\ UNCHANGED <<store, pc, mode, chunk, cardFailed, refused, pass2, gates, exit>>
          /\ included' \subseteq Files /\ decided' \subseteq Files
          /\ shards # <<>> /\ shards' = Tail(shards)
        BY <1>6 DEF RouteShard, Carded, TypeOK
    <2>2. shards' \in Seq(Seq(Files))
        BY <2>1 DEF TypeOK
    <2>3. TypeOK'
        BY <2>1, <2>2 DEF TypeOK, store, pass2, gates
    <2>4. ProgressInv'
        BY <2>1 DEF ProgressInv, ReadSoFar, pass2, store
    <2> QED BY <2>3, <2>4
<1>7. CASE RouteFails \/ Crash
    <2>1. UNCHANGED <<store, mode, pass1, pass2, gates>> /\ pc' = "idle"
          /\ exit' \in {"error", "crash"}
        BY <1>7 DEF RouteFails, Crash, End
    <2>2. TypeOK'
        BY <2>1 DEF TypeOK, store, pass1, pass2, gates
    <2> QED BY <2>1, <2>2 DEF ProgressInv
<1>8. CASE PlanPass2
    <2>1. /\ UNCHANGED <<store, mode, chunk, cardFailed, shards, judged, failures, shown,
                         done, gates>>
          /\ pc = "route" /\ refused' = decided \ included /\ included' = {} /\ decided' = {}
          /\ plan' \in [Files -> {"out", "cached", "todo"}]
          /\ pc' \in {"idle", "gate2"} /\ exit' \in {exit, "ok", "partial"}
          /\ (pc' # "idle" => exit' = exit)
        BY <1>8 DEF PlanPass2, EstimateEnds, End
    <2>2. TypeOK'
        BY <2>1 DEF TypeOK, store, gates
    <2>3. ProgressInv'
        BY <2>1 DEF ProgressInv
    <2> QED BY <2>2, <2>3
<1>9. CASE Pass2Gate
    <2>1. /\ UNCHANGED <<store, mode, pass1, plan, judged, failures, done>>
          /\ pc = "gate2" /\ pc' \in {"extract", "idle"} /\ exit' \in {"none", "error"}
          /\ (pc' # "idle" => exit' = "none")
        BY <1>9 DEF Pass2Gate, Gate, End, ProgressInv
    <2>2. shown' \in [Files -> {"none", "partial", "whole"}]
        BY <1>9 DEF Pass2Gate, TypeOK
    <2>3. Pass2Estimate.usd \in Nat
        BY <1>0, Pass2EstimateType DEF TypeOK
    <2>4. asked' \cup entered' \subseteq {"pass1", "pass2"} /\ usd' \in Nat
        BY <1>9, <2>3, GateTypes DEF Pass2Gate, TypeOK
    <2>5. TypeOK'
        BY <2>1, <2>2, <2>4 DEF TypeOK, store, pass1
    <2>6. ReadSoFar \in [Files -> Nat] /\ \A f \in Files : ReadSoFar[f] = 0
        BY <2>1, ReadTypes DEF ReadSoFar, ProgressInv, TypeOK
    <2>7. Total(ReadSoFar) = 0
        BY <2>6, NothingReadYet
    <2>8. ReadSoFar' = ReadSoFar
        BY <2>1 DEF ReadSoFar, store
    <2>9. \A f \in Files : judged[f].n < parts[f]
        BY <2>1 DEF TypeOK, ProgressInv
    <2>10. done' = Total(ReadSoFar')
        BY <2>1, <2>7, <2>8 DEF ProgressInv
    <2>11. ProgressInv'
        BY <2>1, <2>9, <2>10 DEF ProgressInv, store
    <2> QED BY <2>5, <2>11
<1>10. CASE ReadSection
    BY <1>10, ReadSectionKeeps
<1>11. CASE Pass2Ends \/ Synthesize
    <2>1. UNCHANGED <<store, mode, pass1, pass2, gates>> /\ pc' \in {"idle", "synthesize"}
          /\ exit' \in {exit, "ok", "partial", "error"}
          /\ pc # "idle" /\ (pc' # "idle" => exit' = exit)
        BY <1>11 DEF Pass2Ends, Synthesize, Report, End
    <2>2. TypeOK'
        BY <2>1 DEF TypeOK, store, pass1, pass2, gates
    <2> QED BY <2>1, <2>2 DEF ProgressInv
<1>12. CASE Reindex
    <2>1. Forget /\ exit' = "none" /\ UNCHANGED <<config, pc, mode>> /\ pc = "idle"
        BY <1>12 DEF Reindex
    <2>2. /\ parts' \in [Files -> 1..MaxParts]
          /\ card' \in [Files -> Cards \cup {Nil}]
          /\ verdict' \in [Files -> BOOLEAN]
        BY <1>12 DEF Reindex, TypeOK
    <2>3. TypeOK'
        BY <2>1, <2>2, ForgetTypes DEF TypeOK
    <2> QED BY <2>1, <2>3 DEF ProgressInv
<1>13. CASE UNCHANGED vars
    <2>1. TypeOK'
        BY <1>13 DEF TypeOK, vars, store, pass1, pass2, gates
    <2>2. ProgressInv'
        BY <1>13 DEF ProgressInv, ReadSoFar, vars, store, pass1, pass2, gates
    <2> QED BY <2>1, <2>2
<1> QED
    BY <1>1, <1>2, <1>3, <1>4, <1>5, <1>6, <1>7, <1>8, <1>9, <1>10, <1>11, <1>12, <1>13
       DEF Next, RunStep

\* Every field of a query keeps its type, however many files there are and
\* whatever they and the tasks are like.
THEOREM TypeCorrect == Spec => []TypeOK
<1>1. ReadInv => TypeOK
    BY DEF ReadInv
<1> QED BY <1>1, ReadInit, ReadNext, PTL DEF Spec

\* The progress bar never passes its total and reaches it exactly when the
\* last file ends, for any number of files and sections and in any order.
THEOREM ProgressIsHonest == Spec => []ProgressHonest
<1>1. ReadInv => ProgressHonest
    BY HonestFromSum DEF ReadInv
<1> QED BY <1>1, ReadInit, ReadNext, PTL DEF Spec

----------------------------------------------------------------------------
(* What is still to be routed.                                             *)

\* The chunks of a file: none beyond its parts, none under way once it has a
\* card, one lost if it has failed.
ChunkInv ==
    /\ pc = "gate1" => \A f \in Files, i \in 1..MaxParts : chunk[f][i] = "none"
    /\ \A f \in Files :
          /\ \A i \in 1..MaxParts : chunk[f][i] # "none" => i <= parts[f]
          /\ card[f] # Nil => \A i \in 1..MaxParts : chunk[f][i] # "open"
          /\ f \in cardFailed => \E i \in 1..parts[f] : chunk[f][i] = "lost"

\* While there are shards no card is made any more, and what they hold is the
\* end of the list of the cards.
ShardInv ==
    /\ pc \in {"gate1", "cards"} => shards = <<>>
    /\ shards # <<>> =>
          /\ Files \subseteq Carded \cup cardFailed
          /\ shards \in Seq(Seq(Carded))
          /\ \E u \in Seq(Carded) : InOrder(Carded) = u \o FlattenSeq(shards)
          /\ \A i \in DOMAIN shards : ShardFits(shards[i])

RouteInv == ReadInv /\ ChunkInv /\ ShardInv

\* No chunk is out and no shard is cut at the start.
LEMMA RouteInit == Init => ChunkInv /\ ShardInv
BY DEF Init, NothingYet, ChunkInv, ShardInv

\* A chunk that comes back makes no card while there are shards, and a card
\* only of a file that had none and has no other chunk under way.
LEMMA ChunkBackKeeps ==
    ASSUME RouteInv, ChunkBack
    PROVE  ChunkInv' /\ (shards # <<>> => UNCHANGED card)
<1>1. PICK f \in Files, i \in 1..MaxParts :
          /\ chunk[f][i] = "open"
          /\ chunk' = [chunk EXCEPT ![f][i] = "back"]
          /\ MakeCard(f)
    BY DEF ChunkBack
<1>2. UNCHANGED <<config, parts, pc, cardFailed, shards>>
    BY DEF ChunkBack
<1>3. /\ chunk \in [Files -> [1..MaxParts -> {"none", "open", "back", "lost"}]]
      /\ parts \in [Files -> 1..MaxParts] /\ card \in [Files -> Cards \cup {Nil}]
    BY DEF RouteInv, ReadInv, TypeOK
<1>4. /\ chunk' \in [Files -> [1..MaxParts -> {"none", "open", "back", "lost"}]]
      /\ \A g \in Files, j \in 1..MaxParts :
            chunk'[g][j] = IF g = f /\ j = i THEN "back" ELSE chunk[g][j]
    BY <1>1, <1>3
<1>5. card[f] = Nil /\ i <= parts[f]
    BY <1>1 DEF RouteInv, ChunkInv
<1>6. \A g \in Files : g # f => card'[g] = card[g]
    BY <1>1, <1>3 DEF MakeCard
<1>7. f \in cardFailed => UNCHANGED card
    <2> SUFFICES ASSUME f \in cardFailed PROVE UNCHANGED card
        OBVIOUS
    <2>1. PICK j \in 1..parts[f] : chunk[f][j] = "lost"
        BY DEF RouteInv, ChunkInv
    <2>2. j \in 1..MaxParts /\ chunk'[f][j] = "lost"
        BY <1>1, <1>3, <1>4, <2>1
    <2>3. j \notin Back(f)
        BY <2>2 DEF Back
    <2> QED BY <1>1, <2>1, <2>3 DEF MakeCard
<1>8. card'[f] # Nil => \A j \in 1..MaxParts : chunk'[f][j] # "open"
    <2> SUFFICES ASSUME card'[f] # Nil, NEW j \in 1..MaxParts, chunk'[f][j] = "open"
                 PROVE  FALSE
        OBVIOUS
    <2>1. Back(f) = 1..parts[f]
        BY <1>1, <1>5 DEF MakeCard
    <2>2. j # i /\ chunk[f][j] = "open"
        BY <1>4
    <2>3. j <= parts[f]
        BY <2>2 DEF RouteInv, ChunkInv
    <2>4. j \in Back(f)
        BY <1>3, <2>1, <2>3
    <2> QED BY <2>4 DEF Back
<1>9. ChunkInv'
    <2>1. \A g \in Files : \A j \in 1..MaxParts : chunk'[g][j] # "none" => j <= parts'[g]
        BY <1>2, <1>4, <1>5 DEF RouteInv, ChunkInv
    <2>2. \A g \in Files : card'[g] # Nil => \A j \in 1..MaxParts : chunk'[g][j] # "open"
        BY <1>4, <1>6, <1>8 DEF RouteInv, ChunkInv
    <2>3. ASSUME NEW g \in Files, g \in cardFailed'
          PROVE  \E j \in 1..parts'[g] : chunk'[g][j] = "lost"
        <3>1. PICK j \in 1..parts[g] : chunk[g][j] = "lost"
            BY <1>2, <2>3 DEF RouteInv, ChunkInv
        <3>2. j \in 1..MaxParts
            BY <1>3
        <3>3. chunk'[g][j] = "lost"
            BY <1>1, <1>4, <3>1, <3>2
        <3> QED BY <1>2, <3>3
    <2>4. pc' # "gate1"
        BY <1>1, <1>2 DEF RouteInv, ChunkInv
    <2> QED BY <2>1, <2>2, <2>3, <2>4 DEF ChunkInv
<1>10. shards # <<>> => f \in cardFailed
    BY <1>5 DEF RouteInv, ShardInv, Carded
<1> QED BY <1>7, <1>9, <1>10

\* Shards stay as they are while the cards and the configuration do.
LEMMA ShardsStay ==
    ASSUME ShardInv, UNCHANGED <<config, card, shards>>,
           cardFailed \subseteq cardFailed' \/ shards = <<>>,
           pc' \in {"gate1", "cards"} => shards = <<>>
    PROVE  ShardInv'
<1>1. CASE shards = <<>>
    BY <1>1 DEF ShardInv
<1>2. CASE shards # <<>>
    <2>1. Carded' = Carded /\ InOrder(Carded)' = InOrder(Carded)
          /\ FlattenSeq(shards)' = FlattenSeq(shards)
        BY DEF Carded
    <2>2. \A i \in DOMAIN shards : ShardFits(shards[i])'
        BY <1>2 DEF ShardInv, ShardFits, Tokens
    <2> QED BY <1>2, <2>1, <2>2 DEF ShardInv
<1> QED BY <1>1, <1>2

\* Routing starts with the shards of all the cards.
LEMMA RoutingStarts ==
    ASSUME RouteInv, StartRouting
    PROVE  ShardInv'
<1>1. /\ UNCHANGED <<config, parts, card, cardFailed>> /\ pc' = "route"
      /\ shards' = IF Carded = {} THEN <<>> ELSE ShardCards(InOrder(Carded))
      /\ \A f \in Files : card[f] # Nil \/ f \in cardFailed
    BY DEF StartRouting, store, CardsSettled
<1>2. CASE Carded = {}
    BY <1>1, <1>2 DEF ShardInv
<1>3. CASE Carded # {}
    <2> DEFINE all == InOrder(Carded)
    <2>1. all \in Seq(Carded)
        BY InOrderLists DEF Carded
    <2>2. config \in [Tasks -> Settings] /\ card \in [Files -> Cards \cup {Nil}]
        BY ConfigTyped DEF RouteInv, ReadInv, TypeOK
    <2>3. /\ ShardCards(all) \in Seq(Seq(Carded))
          /\ FlattenSeq(ShardCards(all)) = all
          /\ \A i \in DOMAIN ShardCards(all) : ShardFits(ShardCards(all)[i])
        BY <2>1, <2>2, ShardCardsKeep
    <2>4. <<>> \o all = all /\ <<>> \in Seq(Carded)
        BY <2>1, ConcatEmptySeq
    <2>5. shards' = ShardCards(all)
        BY <1>1, <1>3
    <2>6. Carded' = Carded /\ InOrder(Carded)' = all
        BY <1>1 DEF Carded
    <2>7. \A i \in DOMAIN shards' : ShardFits(shards[i])'
        <3>1. \A i \in DOMAIN shards' : ShardFits(shards'[i])
            BY <2>3, <2>5
        <3> QED BY <1>1, <3>1 DEF ShardFits, Tokens
    <2>8. \E u \in Seq(Carded) : all = u \o FlattenSeq(shards')
        BY <2>3, <2>4, <2>5
    <2>9. Files \subseteq Carded \cup cardFailed
        BY <1>1 DEF Carded
    <2>10. FlattenSeq(shards)' = FlattenSeq(shards')
        OBVIOUS
    <2> HIDE DEF all
    <2>11. /\ Files \subseteq Carded' \cup cardFailed'
           /\ shards' \in Seq(Seq(Carded'))
           /\ \E u \in Seq(Carded') : InOrder(Carded)' = u \o FlattenSeq(shards)'
        BY <1>1, <2>3, <2>5, <2>6, <2>8, <2>9, <2>10
    <2> QED BY <1>1, <2>7, <2>11 DEF ShardInv
<1> QED BY <1>2, <1>3

\* A shard that has been routed leaves the end of the list.
LEMMA ShardRouted ==
    ASSUME RouteInv, RouteShard
    PROVE  ShardInv'
<1>1. /\ UNCHANGED <<config, card, cardFailed>> /\ pc = "route" /\ pc' = "route"
      /\ shards # <<>> /\ shards' = Tail(shards)
    BY DEF RouteShard, store
<1>2. /\ Files \subseteq Carded \cup cardFailed
      /\ shards \in Seq(Seq(Carded))
      /\ \A i \in DOMAIN shards : ShardFits(shards[i])
    BY <1>1 DEF RouteInv, ShardInv
<1>3. PICK u \in Seq(Carded) : InOrder(Carded) = u \o FlattenSeq(shards)
    BY <1>1 DEF RouteInv, ShardInv
<1>4. /\ Head(shards) \in Seq(Carded) /\ Tail(shards) \in Seq(Seq(Carded))
      /\ FlattenSeq(shards) = Head(shards) \o FlattenSeq(Tail(shards))
    BY <1>1, <1>2, FlattenFirst
<1>5. FlattenSeq(Tail(shards)) \in Seq(Carded)
    BY <1>4, FlattenType
<1>6. Carded' = Carded /\ InOrder(Carded)' = InOrder(Carded)
    BY <1>1 DEF Carded
<1>7. \E w \in Seq(Carded) : InOrder(Carded) = w \o FlattenSeq(Tail(shards))
    <2> DEFINE h == Head(shards)
               t == FlattenSeq(Tail(shards))
               C == Carded
    <2>1. u \in Seq(C) /\ h \in Seq(C) /\ t \in Seq(C)
        BY <1>3, <1>4, <1>5
    <2>2. InOrder(C) = u \o (h \o t)
        BY <1>3, <1>4
    <2> HIDE DEF h, t, C
    <2>3. (u \o h) \o t = u \o (h \o t)
        BY ONLY <2>1, ConcatAssociative
    <2>4. u \o h \in Seq(C)
        BY <2>1, ConcatProperties
    <2>5. \E w \in Seq(C) : InOrder(C) = w \o t
        BY <2>2, <2>3, <2>4
    <2> QED BY <2>5 DEF t, C
<1>8. \A i \in DOMAIN shards' : ShardFits(shards[i])'
    <2>1. \A i \in DOMAIN Tail(shards) : i + 1 \in DOMAIN shards /\ Tail(shards)[i] = shards[i + 1]
        BY <1>1, <1>2
    <2>2. \A i \in DOMAIN shards' : ShardFits(shards'[i])
        BY <1>1, <1>2, <2>1
    <2> QED BY <1>1, <2>2 DEF ShardFits, Tokens
<1>9. /\ Files \subseteq Carded' \cup cardFailed'
      /\ shards' \in Seq(Seq(Carded'))
      /\ \E w \in Seq(Carded') : InOrder(Carded)' = w \o FlattenSeq(shards)'
    BY <1>1, <1>2, <1>4, <1>6, <1>7
<1> QED BY <1>1, <1>8, <1>9 DEF ShardInv

\* Every step keeps the chunks' accounts and the shards' limits.
LEMMA RouteNext == RouteInv /\ [Next]_vars => ChunkInv' /\ ShardInv'
<1> SUFFICES ASSUME RouteInv, [Next]_vars PROVE ChunkInv' /\ ShardInv'
    OBVIOUS
<1> USE DEF RouteInv, ReadInv
<1>1. CASE Ask \/ Reindex
    <2>1. /\ chunk' = [f \in Files |-> [i \in 1..MaxParts |-> "none"]]
          /\ cardFailed' = {} /\ shards' = <<>>
        BY <1>1 DEF Ask, Reindex, Forget
    <2> QED BY <2>1 DEF ChunkInv, ShardInv
<1>2. CASE Pass1Gate
    <2>1. /\ UNCHANGED <<config, parts, card, cardFailed, shards>>
          /\ shards = <<>> /\ cardFailed = {} /\ pc' # "gate1"
          /\ UNCHANGED chunk \/ chunk' = [f \in Files |-> [i \in 1..MaxParts |->
                IF f \in NeedCards /\ i <= parts[f] THEN "open" ELSE "none"]]
        <3>1. cardFailed = {}
            <4>1. ASSUME NEW f \in Files, f \in cardFailed PROVE FALSE
                <5>1. PICK i \in 1..parts[f] : chunk[f][i] = "lost"
                    BY <4>1 DEF ChunkInv
                <5>2. parts[f] \in 1..MaxParts
                    BY DEF TypeOK
                <5>3. i \in 1..MaxParts
                    BY <5>2
                <5> QED BY <1>2, <5>1, <5>3 DEF Pass1Gate, ChunkInv
            <4>2. cardFailed \subseteq Files
                BY DEF TypeOK
            <4> QED BY <4>1, <4>2
        <3>2. exit = "none"
            BY <1>2 DEF Pass1Gate, ProgressInv
        <3>3. pc' # "gate1"
            BY <1>2, <3>2 DEF Pass1Gate, Gate, End
        <3> QED BY <1>2, <3>1, <3>3 DEF Pass1Gate, ShardInv, store
    <2>2. ChunkInv'
        BY <2>1 DEF ChunkInv, NeedCards
    <2> QED BY <2>1, <2>2 DEF ShardInv
<1>3. CASE ChunkBack
    <2>1. UNCHANGED <<config, pc, cardFailed, shards>>
        BY <1>3 DEF ChunkBack
    <2>2. ChunkInv' /\ (shards # <<>> => UNCHANGED card)
        BY <1>3, ChunkBackKeeps
    <2>3. ShardInv'
        <3>1. CASE shards = <<>>
            BY <2>1, <3>1 DEF ShardInv
        <3>2. CASE shards # <<>>
            BY <2>1, <2>2, <3>2, ShardsStay DEF ShardInv
        <3> QED BY <3>1, <3>2
    <2> QED BY <2>2, <2>3
<1>4. CASE ChunkLost
    <2>1. UNCHANGED <<config, parts, card, pc, shards>>
        BY <1>4 DEF ChunkLost, store
    <2>2. PICK f \in Files, i \in 1..MaxParts :
              /\ chunk[f][i] = "open"
              /\ chunk' = [chunk EXCEPT ![f][i] = "lost"]
              /\ cardFailed' = cardFailed \cup {f}
        BY <1>4 DEF ChunkLost
    <2>3. /\ \A g \in Files, j \in 1..MaxParts :
                chunk'[g][j] = IF g = f /\ j = i THEN "lost" ELSE chunk[g][j]
          /\ i \in 1..parts[f] /\ parts \in [Files -> 1..MaxParts]
        BY <2>2 DEF ChunkInv, TypeOK
    <2>4. pc # "gate1"
        BY <2>2 DEF ChunkInv
    <2>5. ChunkInv'
        BY <2>1, <2>2, <2>3, <2>4 DEF ChunkInv
    <2>6. ShardInv'
        BY <2>1, <2>2, ShardsStay DEF ShardInv
    <2> QED BY <2>5, <2>6
<1>5. CASE StartRouting
    <2>1. /\ UNCHANGED <<parts, card, chunk, cardFailed>> /\ pc' = "route"
        BY <1>5 DEF StartRouting, store
    <2>2. ChunkInv'
        BY <2>1 DEF ChunkInv
    <2> QED BY <1>5, <2>2, RoutingStarts
<1>6. CASE RouteShard
    <2>1. /\ UNCHANGED <<parts, card, pc, chunk, cardFailed>>
        BY <1>6 DEF RouteShard, store
    <2>2. ChunkInv'
        BY <2>1 DEF ChunkInv
    <2> QED BY <1>6, <2>2, ShardRouted
<1>7. CASE RouteFails \/ Crash \/ PlanPass2 \/ Pass2Gate \/ ReadSection \/ Pass2Ends \/ Synthesize
    <2>1. /\ UNCHANGED <<config, parts, card, chunk, cardFailed, shards>>
          /\ pc' \notin {"gate1", "cards"}
        <3>1. CASE Pass2Gate
            <4>1. exit = "none"
                BY <3>1 DEF Pass2Gate, ProgressInv
            <4> QED BY <3>1, <4>1 DEF Pass2Gate, Gate, End, store, pass1
        <3>2. CASE PlanPass2
            <4>1. pc' \in {"idle", "gate2"}
                BY <3>2 DEF PlanPass2, EstimateEnds, End
            <4>2. UNCHANGED <<store, chunk, cardFailed, shards>>
                BY <3>2 DEF PlanPass2
            <4> QED BY <4>1, <4>2 DEF store
        <3>4. CASE ReadSection
            BY <3>4 DEF ReadSection, pass1
        <3>3. CASE RouteFails \/ Crash \/ Pass2Ends \/ Synthesize
            BY <3>3 DEF RouteFails, Crash, Pass2Ends, Synthesize, Report, End, store, pass1
        <3> QED BY <1>7, <3>1, <3>2, <3>3, <3>4
    <2>2. ChunkInv'
        BY <2>1 DEF ChunkInv
    <2>3. ShardInv'
        BY <2>1, ShardsStay
    <2> QED BY <2>2, <2>3
<1>8. CASE UNCHANGED vars
    <2>1. UNCHANGED <<config, parts, card, pc, chunk, cardFailed, shards>>
        BY <1>8 DEF vars, store, pass1
    <2>2. ChunkInv'
        BY <2>1 DEF ChunkInv
    <2>3. ShardInv'
        BY <2>1, ShardsStay DEF ShardInv
    <2> QED BY <2>2, <2>3
<1> QED
    BY <1>1, <1>2, <1>3, <1>4, <1>5, <1>6, <1>7, <1>8 DEF Next, RunStep

\* A shard that fits holds no more decisions than the reply has room for.
LEMMA DecisionsFit ==
    ASSUME config \in [Tasks -> Settings], NEW k \in Nat, k > 1,
           k <= RouteShardLimits(config).cards
    PROVE  k * DecisionTokens + OutputReserve <= config["route"].maxTokens
<1> DEFINE m == config["route"].maxTokens
           a == m - OutputReserve
           q == a \div DecisionTokens
           d == DecisionTokens
<1>1. m \in Nat /\ OutputReserve \in Nat /\ d \in Nat \ {0}
    BY BudgetAssumption DEF Tasks, Settings
<1>2. RouteShardLimits(config).cards = Larger(1, q)
    BY DEF RouteShardLimits
<1>3. q \in Int /\ q * d <= a
    <2>1. a \in Int
        BY <1>1
    <2> HIDE DEF a
    <2>2. a = d * (a \div d) + (a % d) /\ a % d \in Nat /\ a \div d \in Int
        BY <1>1, <2>1
    <2> QED BY <1>1, <2>1, <2>2
<1> HIDE DEF q, d, m
<1>4. k <= q
    BY <1>2, <1>3 DEF Larger
<1>5. k * d <= q * d
    BY <1>1, <1>3, <1>4
<1>6. k * d \in Int /\ q * d \in Int
    BY <1>1, <1>3
<1>7. k * d + OutputReserve <= m
    BY <1>1, <1>3, <1>5, <1>6
<1> QED BY <1>7 DEF d, m

\* The shards still to be routed fit in the calls they go in.
LEMMA FitsFromInv ==
    ASSUME RouteInv
    PROVE  ShardsFit
<1>1. config \in [Tasks -> Settings]
    BY ConfigTyped DEF RouteInv, ReadInv, TypeOK
<1>2. shards \in Seq(Seq(Files))
    BY DEF RouteInv, ReadInv, TypeOK
<1>3. IsSuffix(FlattenSeq(shards), InOrder(Carded))
    <2> DEFINE all == InOrder(Carded)
    <2>1. all \in Seq(Carded)
        BY InOrderLists DEF Carded
    <2>2. CASE shards = <<>>
        <3>1. FlattenSeq(shards) = <<>>
            BY <2>2 DEF FlattenSeq
        <3>2. all \o <<>> = all /\ <<>> \in Seq(Carded)
            BY <2>1, ConcatEmptySeq
        <3>3. IsSuffix(<<>>, all \o <<>>)
            BY <2>1, <3>2, SuffixOf
        <3> QED BY <3>1, <3>2, <3>3
    <2>3. CASE shards # <<>>
        <3>1. PICK u \in Seq(Carded) : all = u \o FlattenSeq(shards)
            BY <2>3 DEF RouteInv, ShardInv
        <3>2. FlattenSeq(shards) \in Seq(Carded)
            BY <2>3, FlattenType DEF RouteInv, ShardInv
        <3> HIDE DEF all
        <3>3. IsSuffix(FlattenSeq(shards), u \o FlattenSeq(shards))
            BY <3>2, SuffixOf
        <3> QED BY <3>1, <3>3 DEF all
    <2> QED BY <2>2, <2>3
<1>4. ASSUME NEW i \in DOMAIN shards, Len(shards[i]) > 1
      PROVE  /\ Tokens(shards[i]) <= RouteShardLimits(config).tokens
             /\ Len(shards[i]) * DecisionTokens + OutputReserve <= config["route"].maxTokens
    <2>1. ShardFits(shards[i]) /\ Len(shards[i]) \in Nat
        BY <1>2, <1>4 DEF RouteInv, ShardInv
    <2>2. /\ Tokens(shards[i]) <= RouteShardLimits(config).tokens
          /\ Len(shards[i]) <= RouteShardLimits(config).cards
        BY <1>4, <2>1 DEF ShardFits
    <2> DEFINE k == Len(shards[i])
    <2>3. k \in Nat /\ k > 1 /\ k <= RouteShardLimits(config).cards
        BY <1>4, <2>1, <2>2
    <2> HIDE DEF k
    <2>4. k * DecisionTokens + OutputReserve <= config["route"].maxTokens
        BY <1>1, <2>3, DecisionsFit
    <2> QED BY <2>2, <2>4 DEF k
<1> QED BY <1>3, <1>4 DEF ShardsFit

\* What is still to be routed is the end of the cards in path order, and every
\* routing call of more than one card fits the window in both directions,
\* whatever the sizes of the cards and the limits of the model.
THEOREM RoutingFits == Spec => []ShardsFit
<1>1. Init => RouteInv
    BY ReadInit, RouteInit DEF RouteInv
<1>2. RouteInv /\ [Next]_vars => RouteInv'
    BY ReadNext, RouteNext DEF RouteInv
<1>3. RouteInv => ShardsFit
    BY FitsFromInv
<1> QED BY <1>1, <1>2, <1>3, PTL DEF Spec
=============================================================================
