------------------------------ MODULE MCBacktest ------------------------------
(* Backtest on a small instance: two symbols, every strategy.              *)
EXTENDS Backtest

CONSTANTS a, b

MCListed == <<a, b>>

\* Every day, or with a weekend after the second bar.
Daily   == <<1, 2, 3, 4, 5>>
Weekend == <<1, 2, 5, 6, 7>>

Reply == <<Signal(a, 1), Signal(b, -1)>>
Twice == <<Signal(a, 1), Signal(a, -1)>>

Always(entries) == [p \in Prompts |-> [kind |-> "list", entries |-> entries]]

\* The model goes by the closes of a: no list for one close, another for falling ones
\* than for rising ones, and a broken one where nothing moved.
ByTrend ==
  [p \in Prompts |->
     [kind |-> IF a \notin DOMAIN p \/ Len(p[a]) < 2 THEN "prose"
               ELSE IF p[a][1] = p[a][2] THEN "broken" ELSE "list",
      entries |-> IF a \in DOMAIN p /\ Len(p[a]) = 2 /\ p[a][1] < p[a][2] THEN Reply
                  ELSE Twice]]

Plain ==
  [strategy : DOMAIN Needs, sizer : {"equal_weight", "kelly_capped"}, guarded : BOOLEAN,
   pair : {[a |-> a, b |-> b, beta |-> 1]}, event : {NoEvent}, features : {NoFeatures},
   headlines : {{}}, reply : {Always(<<>>)}, calendar : {Daily}]

\* The context varies for the strategies that read it.
WithContext ==
  UNION {CASE x.strategy = "pead_drift" ->
                {[x EXCEPT !.event = [ts |-> t, sue |-> u]] : t \in 0 .. 2, u \in {-1, 1}}
           [] x.strategy = "news_embed" -> {[x EXCEPT !.features = <<1, -1, 0, 1>>]}
           [] x.strategy = "llm_news" ->
                {[x EXCEPT !.headlines = {a}, !.reply = r] :
                   r \in {Always(Twice), Always(<<Signal("unknown", 1)>>), ByTrend}} \cup {x}
           [] OTHER -> {x} : x \in Plain}

MCSetups == {[x EXCEPT !.calendar = c] : x \in WithContext, c \in {Daily, Weekend}}

===============================================================================
