---------------------------- MODULE MCStoryIntake ----------------------------
(* A patch of two components: six planned stories, a repair, a scope change   *)
(* and a showcase.                                                            *)
EXTENDS StoryIntake

Answered == {"goals", "users", "constraints"}
Plain == [blank |-> FALSE, injected |-> FALSE, secret |-> "none", markers |-> {"bug"}, answered |-> Answered]
MCIdeas == {Plain, [Plain EXCEPT !.answered = {"non_goals"}], [Plain EXCEPT !.secret = "idea_id"],
            [Plain EXCEPT !.secret = "field"], [Plain EXCEPT !.injected = TRUE]}
MCHoldable == {ImplOf(1)}
MCMessages ==
  {[slug |-> 1, injected |-> i, words |-> w, markers |-> {"existing"}] :
     i \in BOOLEAN, w \in {{"scope"}, {"scope", "status"}, {"verdict"}}}
MCRestartable == {TestOf(1)}
MCBreakable == {ImplOf(1)}
MCWaved == {Foundation}
=============================================================================
