--------------------------- MODULE MCTerminalManager ---------------------------
EXTENDS TerminalManager, TLC

CONSTANTS a, b, h1, h2

MCOpened == {<<a>>}
MCThreadOf == (a :> h1) @@ (b :> h2)
=============================================================================
