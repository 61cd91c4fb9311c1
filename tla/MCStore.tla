------------------------------- MODULE MCStore --------------------------------
EXTENDS Store

\* The world, a pair, and a rank by itself.
Groups == {{0, 1, 2}, {0, 1}, {2}}

Flags == {{"creat", "trunc"}}

=============================================================================
