----------------------------- MODULE MCJtiMemory -----------------------------
\* JtiMemory with assertions that differ in their lifetime and carry the same
\* identifier: the dictionary is keyed by the jti alone, not by the client.
EXTENDS JtiMemory

CONSTANT j1

Claims(jti, iat, exp, text) == [jti |-> jti, iat |-> iat, exp |-> exp, text |-> text]

\* The last one has its exp in quotes.
MCAssertions == {Claims(j1, 0, 1, FALSE), Claims(j1, 1, 3, FALSE), Claims(j1, 0, 2, TRUE)}

\* One client, one honest assertion: what it takes to have it accepted twice.
MCOneAssertion == {Claims(j1, 0, 1, FALSE)}

\* An exp in quotes with one identifier, a number with the others.
MCTextAssertions == {Claims(j, 0, 2, j = j1) : j \in Jtis}
=============================================================================
