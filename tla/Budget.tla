------------------------------- MODULE Budget -------------------------------
(***************************************************************************)
(* What a query is projected to cost (corpusqa/query/budget.py) and how a  *)
(* task gets its price (corpusqa/llm/pricing.py): pure functions of the    *)
(* configuration, shared by the gate, the router and the estimate command. *)
(* cfg[t] is the configuration of task t: the ceiling of its output and    *)
(* where its price comes from.  Token counts and rates are small numbers;  *)
(* the division by a million that turns rates into dollars is left out on  *)
(* both sides of the gate.                                                 *)
(***************************************************************************)
EXTENDS Integers, FiniteSetsExt, SequencesExt

CONSTANTS
    RouteWindow,      \* context_window of the routing task
    RouteOverhead,    \* ROUTE_SHARD_OVERHEAD_TOKENS
    MinRouteInput,    \* the 2_000 routing never goes below
    OutputReserve,    \* ROUTE_OUTPUT_RESERVE_TOKENS
    DecisionTokens,   \* ROUTE_DECISION_TOKENS
    ExtractOverhead,  \* EXTRACT_PROMPT_OVERHEAD_TOKENS
    Threshold,        \* budget.confirm_above_usd
    Nil

Tasks == {"catalog", "route", "extract", "synthesize"}

ASSUME BudgetAssumption ==
    /\ {RouteWindow, RouteOverhead, OutputReserve, ExtractOverhead, Threshold} \subseteq Nat
    /\ MinRouteInput \in Nat \ {0} /\ DecisionTokens \in Nat \ {0}
    /\ Nil \notin Nat

Larger(a, b) == IF a < b THEN b ELSE a

CeilDiv(a, b) == (a + b - 1) \div b

Total(s) == FoldSeq(+, 0, s)

Sides == {"in", "out"}

\* cost_map_rate, or free when the provider is on this machine.
Known(src) ==
    IF src.map # Nil THEN src.map
    ELSE IF src.loopback THEN [in |-> 0, out |-> 0] ELSE Nil

\* task_rate: each side by itself, the override first; Nil when either side has
\* no price.
TaskRate(src) ==
    LET side(s) == IF src[s] # Nil THEN src[s]
                   ELSE IF Known(src) # Nil THEN Known(src)[s] ELSE Nil
    IN IF \E s \in Sides : side(s) = Nil THEN Nil ELSE [s \in Sides |-> side(s)]

\* What in and out tokens of task t cost; an unpriced task counts as nothing.
Usd(cfg, t, in, out) ==
    LET r == TaskRate(cfg[t]) IN IF r = Nil THEN 0 ELSE in * r.in + out * r.out

Unpriced(cfg, ts) == {t \in ts : TaskRate(cfg[t]) = Nil}

\* route_shard_limits: both directions of the routing window.
RouteShardLimits(cfg) ==
    [tokens |-> Larger(RouteWindow - RouteOverhead, MinRouteInput),
     cards  |-> Larger(1, (cfg["route"].maxTokens - OutputReserve) \div DecisionTokens)]

\* estimate_pass1: pending is the sequence of token counts of the files that
\* lack a card, cards the number of cards routing will read.
EstimatePass1(cfg, pending, cards) ==
    LET routeIn == cards * cfg["catalog"].maxTokens
        lim     == RouteShardLimits(cfg)
        shards  == IF cards = 0 THEN 0
                   ELSE Larger(CeilDiv(routeIn, lim.tokens), CeilDiv(cards, lim.cards))
    IN [usd |-> Usd(cfg, "catalog", Total(pending), cfg["catalog"].maxTokens * Len(pending))
                + Usd(cfg, "route", routeIn, cfg["route"].maxTokens * shards),
        unpriced |-> Unpriced(cfg, {"catalog", "route"})]

\* estimate_query: sections is a sequence of sequences, the token counts of the
\* sections of each file that pass 2 will read.
EstimateQuery(cfg, sections) ==
    LET calls == Total([i \in DOMAIN sections |-> Len(sections[i])])
        in    == Total([i \in DOMAIN sections |-> Total(sections[i])]) + calls * ExtractOverhead
        out   == cfg["extract"].maxTokens * calls
    IN [usd |-> Usd(cfg, "extract", in, out)
                + Usd(cfg, "synthesize", out, cfg["synthesize"].maxTokens),
        unpriced |-> Unpriced(cfg, {"extract", "synthesize"})]

\* Seeded defect: each stage is held against the threshold by itself.
PassesPerStage(estimate, prior) ==
    estimate.usd <= Threshold /\ estimate.unpriced = {}

\* _check_budget_gate: what needs no confirmation.
Passes(estimate, prior) ==
    prior + estimate.usd <= Threshold /\ estimate.unpriced = {}
=============================================================================
