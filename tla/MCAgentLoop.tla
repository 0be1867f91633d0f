---------------------------- MODULE MCAgentLoop ----------------------------
(***************************************************************************)
(* Instances of AgentLoop for TLC.  Messages m1, m2 and m3 go to session   *)
(* s1, m4 to s2, so that both races within a session and the connection    *)
(* that sessions share are covered.                                        *)
(***************************************************************************)
EXTENDS AgentLoop

CONSTANTS m1, m2, m3, m4, s1, s2

OneSession  == [m \in Messages |-> s1]
TwoSessions == [m \in Messages |-> IF m = m4 THEN s2 ELSE s1]

NoSigns == [m \in Messages |-> {}]

\* m3 alone carries three signs, once in a conversation that holds it twice.
LateSigns ==
    [m \in Messages |-> IF m = m3 THEN {"authority", "anchoring", "boundary"}
                                  ELSE {}]

\* The signs of a conversation of three, which none of two shows.
SpreadSigns ==
    [m \in Messages |-> IF m = m3 THEN {"role", "anchoring"}
                                  ELSE {"authority"}]

Stop   == [finish |-> "stop", calls |-> <<>>, tokens |-> 1]
Error  == [finish |-> "error", calls |-> <<>>, tokens |-> 0]
NoCall == [finish |-> "tool_calls", calls |-> <<>>, tokens |-> 1]
Calls(kinds) == [finish |-> "tool_calls", calls |-> kinds, tokens |-> 2]

TextOnly    == [m \in Messages |-> {Stop}]
OneGated    == [m \in Messages |-> IF m = m1 THEN {Stop, Calls(<<"gated">>)}
                                            ELSE {Stop, Error}]
EveryAnswer == [m \in Messages |-> IF m = m1
                    THEN {Stop, Error, NoCall, Calls(<<"gated", "free">>)}
                    ELSE {Stop}]
=============================================================================
