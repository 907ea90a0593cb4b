----------------------------- MODULE MCWorkerParts -----------------------------
(* The proxy's parts, and those that work on a branch or the forge, on small *)
(* instances, in one run of TLC.                                             *)
EXTENDS WorkerParts, TLC

CONSTANTS f1, ci1    \* a claim and a check

MCTexts == {<<>>, <<"a">>, <<"<think>">>, <<"</think>">>, <<"<t">>, <<"hink>">>,
            <<"<tool_use>">>, <<"</tool_use>">>, <<"*">>, <<"<function>", "<parameter>">>,
            <<"<tool_use>", "</tool_use>", "a">>, <<"a", "<tool_use>">>}
MCToolCalls == [index : {0, 1}, id : BOOLEAN, name : {"", "Task"}, args : {"", "part", "whole"}]

Cell(p, m) == [provider |-> p, model |-> m]
MCModelOrder == <<"m1", "m2">>
MCProviderOrder == <<"nvidia_nim", "kimi", "open_router">>
MCServedCells == {Cell("nvidia_nim", "m1"), Cell("open_router", "m1"),
            Cell("nvidia_nim", "m2"), Cell("kimi", "m2"), Cell("open_router", "m2")}
MCPlacedAt == [m1 |-> "opus", m2 |-> "haiku"]
MCChainFiles == {[opus |-> <<Cell("nvidia_nim", "m1"), Cell("open_router", "m2"),
                             Cell("claude_code", "opus")>>,
                  haiku |-> <<Cell("open_router", "m1"), Cell("claude_code", "haiku")>>]}

MCVerifiersOf == [a |-> {"tsc", "eslint", "jsdoc"}, b |-> {"parse"}]

MCContract == <<{"a", "b"}, {"b"}>>
MCStepMessage == <<"m1", "m2">>
MCStepsOf == "spec" :> <<1, 2>> @@ "sub1" :> <<1>> @@ "sub2" :> <<2>>
================================================================================
