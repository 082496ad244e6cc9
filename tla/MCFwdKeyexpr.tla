---------------------------- MODULE MCFwdKeyexpr ----------------------------
(***************************************************************************)
(* Names for FwdKeyexpr: with and without chunks that are names of kinds.  *)
(***************************************************************************)
EXTENDS FwdKeyexpr

MCUuid == {"x", "y"}
MCGuid == {"g", "h"}
MCScopeName == {<<>>, <<"s">>, <<"s", "t">>, <<"s", "writer">>, <<"reader">>}
MCNoScope == {<<>>}
MCTopicName ==
    {<<"a">>, <<"reader">>, <<"writer">>, <<"writer", "a">>, <<"reader", "a">>,
     <<"ros_disco", "writer", "reader">>, <<"a", "reader", "writer", "a">>}
=============================================================================
