--------------------------- MODULE QosAdaptation ----------------------------
(***************************************************************************)
(* The QoS policies of which DDS compares the offered and the requested    *)
(* value, and how the bridge derives those of its own readers and writers  *)
(* from the endpoint a route is created for.                               *)
(*                                                                         *)
(* "unset" is Option::None: the endpoint relies on the default of DDS,     *)
(* which for reliability is not the same for a writer and for a reader.    *)
(***************************************************************************)

Qos == [durability : {"unset", "VOLATILE", "TRANSIENT_LOCAL"},
        reliability : {"unset", "BEST_EFFORT", "RELIABLE"}]

is_transient_local(qos) == qos.durability = "TRANSIENT_LOCAL"

\* A writer without a reliability policy is RELIABLE, a reader is BEST_EFFORT.
is_writer_reliable(qos) == qos.reliability # "BEST_EFFORT"

is_reader_reliable(qos) == qos.reliability = "RELIABLE"

\* The QoS of the bridge's reader for a route created because of a writer.
adapt_writer_qos_for_reader(qos) ==
    IF qos.reliability = "unset"
    THEN [qos EXCEPT !.reliability = "BEST_EFFORT"]
    ELSE qos

\* The QoS of the bridge's writer for a route created because of a reader.
adapt_reader_qos_for_writer(qos) ==
    IF qos.reliability = "unset"
    THEN [qos EXCEPT !.reliability = "RELIABLE"]
    ELSE qos

\* create_forwarding_dds_writer never creates a BEST_EFFORT writer (#165).
forwarding_writer_qos(qos) ==
    IF qos.reliability = "BEST_EFFORT"
    THEN [qos EXCEPT !.reliability = "unset"]
    ELSE qos

\* DDS matches a writer with a reader when the writer offers at least what the
\* reader requests.
Matching(offered, requested) ==
    /\ is_transient_local(requested) => is_transient_local(offered)
    /\ is_reader_reliable(requested) => is_writer_reliable(offered)
=============================================================================
