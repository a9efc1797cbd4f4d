----------------------------- MODULE MCExecPolicy -----------------------------
EXTENDS ExecPolicy, TLC

CONSTANTS h1, h2

\* A command, a command with an argument, and one some policies deny.
MCArgvs == {<<"git">>, <<"git", "status">>, <<"rm", "x">>}

Rule(workspace, deny, allow) == [workspace |-> workspace, deny |-> deny, allow |-> allow]

\* Everything; everything but what a later rule denies; one command exactly,
\* beside a rule of another workspace.
MCPolicies ==
  { <<Rule("*", {}, {<<"*">>})>>,
    <<Rule("", {}, {<<"*">>}), Rule("w", {<<"rm", "*">>}, {})>>,
    <<Rule("v", {<<"git", "*">>}, {<<"*">>}), Rule("w", {}, {<<"git">>})>> }

Symmetry == Permutations({h1, h2})
===============================================================================
