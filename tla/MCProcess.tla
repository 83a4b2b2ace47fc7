------------------------------ MODULE MCProcess ------------------------------
(* Small instances of Process. *)
EXTENDS Process

Func == <<"write", "read", "write">>   \* example/func.cpp
Filter == <<"readAll", "write">>       \* a program like sort

Source == <<"write", "write">>         \* a program like ls

\* example/test_Process.cpp; a filter; a source that has less than is asked for; a
\* child that is stopped or turned away; a filter whose input is left open; a source
\* whose output nobody reads, so that it stands before a full pipe.
SomeScenarios == {
    [calls |-> <<"read", "write", "read">>, program |-> Func],
    [calls |-> <<"write", "closeStdin", "read">>, program |-> Filter],
    [calls |-> <<"read", "read", "read">>, program |-> Source],
    [calls |-> <<"read", "abort">>, program |-> Func],
    [calls |-> <<"close", "read", "write">>, program |-> Func],
    [calls |-> <<"write">>, program |-> Filter],
    [calls |-> <<"closeStdin">>, program |-> Source]}
=============================================================================
