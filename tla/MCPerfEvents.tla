---------------------------- MODULE MCPerfEvents ----------------------------
EXTENDS PerfEvents

\* Two groups that share an event; one without events before one with a name
\* twice; as many events as a read may return, and one more.
MCGroupChoices ==
  {<< <<"a">>, <<"b", "a">> >>,
   << <<>>, <<"b">>, <<"a", "b", "a">> >>,
   << <<"a", "b", "a">> >>,
   << <<"a">>, <<"a", "b", "c">> >>,
   << <<"a", "b", "c", "d">> >>}
=============================================================================
