---- MODULE MCBrowserSession ----
(* Small instances of BrowserSession.                                        *)
EXTENDS BrowserSession, TLC

Alike == Permutations(Workers) \union Permutations(Views)

\* Bound: a third command is one on the live page, in a session of a person,
\* after a frame that was taken at once and an interaction.
ThirdAfterInteraction ==
  3 \in Commands /\ command[3].state # "none" =>
    /\ ~session.agent
    /\ command[1].kind = "takeover_frame"
    /\ command[1].state = "succeeded" /\ command[1].attempts = 1
    /\ command[2].kind = "takeover_interaction"
    /\ command[3].kind \in AffinityKinds
====
