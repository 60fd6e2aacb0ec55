-------------------------- MODULE MCRaknetReceiver --------------------------
\* Two fragmented messages and a short one; datagrams with one or two capsules.
EXTENDS RaknetReceiver

MCMessages == {"chunk", "form", "ping"}
MCParts == [chunk |-> 2, form |-> 2, ping |-> 1]
MCFragmentId == [chunk |-> 0, form |-> 1, ping |-> 0]
MCContents == {<< <<"chunk", 0>> >>, << <<"chunk", 1>> >>,
               << <<"form", 1>>, <<"form", 0>> >>,
               << <<"ping", 0>>, <<"chunk", 1>> >>}
=============================================================================
