--------------------------- MODULE MCSerialViews ---------------------------
EXTENDS SerialViews

\* The first view, and the last group of 9, which has only five cameras.
MCKeyed == {[cmd |-> 4, ch |-> 0], [cmd |-> 9, ch |-> 3]}
MCFirst == [cmd |-> 4, ch |-> 0]
=============================================================================
