--------------------------- MODULE MCArbitration ---------------------------
(* Instances of Arbitration for TLC. *)
EXTENDS Arbitration

\* Paper 1: a gate and a question that depends on it; paper 2: a single dispute.
TwoPapers == <<1, 1, 2>>
Chain     == <<{}, {<<1, {"yes"}>>}, {}>>
Values    == <<{"yes", "partly", "no"}, {"yes"}, {NoValue}>>
Damages   == <<{"cited"}, {}, {}>>

\* One of the stages over all items or the first alone, then any command over all
\* or Pass 2 of the first alone, then all of them in one command.
TwiceThenAll ==
    LET first  == {"arbitrate", "pass1"} \X {Items, {1}}
        second == (Commands \X {Items}) \union {<<"pass2", {1}>>}
        last   == {<<"arbitrate", Items>>}
    IN  <<first, second, last>>

\* One paper with two disputes, and Pass 1 for one after the other.
OnePaper  == <<1, 1>>
NoDamage  == <<{}, {}>>
NoNeeds   == <<{}, {}>>
OneValue  == <<{"yes"}, {"yes"}>>
OneByOne  == <<{<<"pass1", {1}>>}, {<<"pass1", {2}>>}, {<<"pass2", {1, 2}>>}>>
=============================================================================
