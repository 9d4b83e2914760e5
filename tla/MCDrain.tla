------------------------------- MODULE MCDrain -------------------------------
EXTENDS Drain, MCStatement

\* Room for one unit of every type, for two, and for all of a value.
DrainBuffersAll == {Buf(4), Buf(6), Buf(20)}
=============================================================================
