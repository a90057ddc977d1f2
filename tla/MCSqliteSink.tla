----------------------------- MODULE MCSqliteSink -----------------------------
\* One writer, the periodic task and one task that stops and reopens.
EXTENDS SqliteSinkDriver

CONSTANTS w, k, f

MCClients == {w}
MCClosers == {k}
MCRow == 1 .. MaxRows
=============================================================================
