--------------------------- MODULE MCInlineSession ----------------------------
\* InlineSession for TLC: Inline.cfg gives the constants.
EXTENDS InlineSession
=============================================================================
