------------------------------- MODULE MCStartup -------------------------------
(* Two thrusters and the files of a user for model checking Startup.       *)
EXTENDS Startup, ThrusterConfig

\* One value changed: a reversed thruster with less power forward.
MCEdited == [DefaultParams EXCEPT ![1] = [@ EXCEPT !.reversed = 1, !.power_pLimit = 3]]

\* Written by hand on one line: {"T1":{"PP":2,"E":5,"C":true},"t0":{}}.
Num(d) == [t |-> "number", form |-> "int", d |-> 10 * d]
Str(s) == [t |-> "string", body |-> s]
MCByHand == <<Tok("{"), Str(<<84, 49>>), Tok(":"), Tok("{"), Str(<<80, 80>>), Tok(":"), Num(2),
              Tok(","), Str(<<69>>), Tok(":"), Num(5), Tok(","), Str(<<67>>), Tok(":"),
              Tok("true"), Tok("}"), Tok(","), Tok("space"), Str(<<116, 48>>), Tok(":"),
              Tok("{"), Tok("}"), Tok("}"), Tok("space")>>
MCByHandParams ==
    [DefaultParams EXCEPT ![0] = ZeroAttr,
                          ![1] = [ZeroAttr EXCEPT !.power_pLimit = 20, !.enabled = 1,
                                                  !.channel = 1]]

\* Without its last brace it is no document; without its first it is the value
\* "T1" and a rest that nobody looks at.
MCUserFiles == {[text |-> TextOf(NoHeap, MCEdited).text, params |-> MCEdited],
                [text |-> MCByHand, params |-> MCByHandParams],
                [text |-> SubSeq(MCByHand, 1, Len(MCByHand) - 2), params |-> NoParams],
                [text |-> Tail(MCByHand), params |-> [i \in Thruster |-> ZeroAttr]]}
=============================================================================
