---------------------------- MODULE MCRayClient -----------------------------
EXTENDS RayClient

\* Two requests of which the first is in two chunks or asynchronous, and the
\* second a call, a task in two chunks, or a get whose object has two chunks.
MCProgram ==
    << {<<"put", 2>>, <<"task", 1>>}, {<<"put", 1>>, <<"task", 2>>, <<"get", 2>>} >>

\* Two puts, the first in two chunks.
MCPuts == << {<<"put", 2>>}, {<<"put", 1>>} >>
=============================================================================
