------------------------------ MODULE Packets ------------------------------
(***************************************************************************)
(* The classes that travel between runtimes, each with what it writes and  *)
(* what it reads, and the packet factories of the channels, each the set   *)
(* of the classes it can make.                                             *)
(***************************************************************************)
EXTENDS Wire

Packet(name, op, out, in) == [name |-> name, op |-> op, out |-> out, in |-> in]

-----------------------------------------------------------------------------
\* Values that packets are made of.

UUID == Class(<<ULong("size"), Octets(16, "key")>>, <<ULong("size"), Octets(16, "key")>>)
Id(m) == Obj("UUID", m)

EndpointQoS == Class(<<UShort("m_type"), UShort("m_priority")>>,
                     <<UShort("m_type"), UShort("m_priority")>>)
Endpoint ==
    Class(<<Octet("m_type"), Str("m_host"), UShort("m_port"), Obj("EndpointQoS", "m_qos")>>,
          <<Octet("m_type"), Str("m_host"), UShort("m_port"), Obj("EndpointQoS", "m_qos")>>)
SAPInfo == Class(<<List("ulong", "Endpoint", "m_endpointList")>>,
                 <<List("ulong", "Endpoint", "m_endpointList")>>)
OptSAP(m) == Opt(Obj("SAPInfo", m))

OverlayPeerInfo ==
    Class(<<Id("m_uuid"), Id("m_fid"), Obj("SAPInfo", "m_meshSAP"), Obj("SAPInfo", "m_ftSAP"),
            Obj("SAPInfo", "m_ftDataSAP")>>,
          <<Id("m_uuid"), Id("m_fid"), Obj("SAPInfo", "m_meshSAP"), Obj("SAPInfo", "m_ftSAP"),
            Obj("SAPInfo", "m_ftDataSAP")>>)
ServiceInstanceInfo ==
    Class(<<Id("m_sid"), Id("m_iid"), OptSAP("m_sapInfo")>>,
          <<Id("m_sid"), Id("m_iid"), OptSAP("m_sapInfo")>>)
ServiceInfo ==
    Class(<<Id("m_sid"), List("long", "ServiceInstanceInfo", "m_runningServicesMap")>>,
          <<Id("m_sid"), List("long", "ServiceInstanceInfo", "m_runningServicesMap")>>)
PeerInfo ==
    Class(<<ULong("m_type"), Id("m_uuidPtr"), Id("m_fidPtr"), OptSAP("m_meshSAP"),
            OptSAP("m_discoverySAP"), OptSAP("m_ftSAP"), List("long", "ServiceInfo", "m_serviceMap")>>,
          <<ULong("m_type"), Id("m_uuidPtr"), Id("m_fidPtr"), OptSAP("m_meshSAP"),
            OptSAP("m_discoverySAP"), OptSAP("m_ftSAP"), List("long", "ServiceInfo", "m_serviceMap")>>)
P3PeerInfo ==
    Class(PeerInfo.out \o <<Opt(Obj("Endpoint", "m_cellEndpoint"))>>,
          PeerInfo.in \o <<Opt(Obj("Endpoint", "m_cellEndpoint"))>>)
CellAddr == Class(<<Id("m_cellID"), Str("m_itf"), Str("m_ip"), Short("m_port")>>,
                  <<Id("m_cellID"), Str("m_itf"), Str("m_ip"), Short("m_port")>>)

SensorInfo == Class(<<Long("m_type"), Id("m_uuid"), Obj("Endpoint", "m_endpoint")>>,
                    <<Long("m_type"), Id("m_uuid"), Obj("Endpoint", "m_endpoint")>>)
FTServiceParams == Class(<<ULong("m_replicaCount"), Char("m_policy")>>,
                         <<ULong("m_replicaCount"), Char("m_policy")>>)
ServiceParams ==
    Class(<<Id("m_sid"), Opt(Obj("FTServiceParams", "m_ftParams")), Blob("specialization")>>,
          <<Id("m_sid"), Opt(Obj("FTServiceParams", "m_ftParams")), Blob("specialization")>>)
MeshException == Class(<<Str("objectID"), Str("m_message")>>, <<Str("objectID"), Str("m_message")>>)
DiscoveryException == Class(<<Str("objectID")>>, <<Str("objectID")>>)
\* What a node relays: the specialization is a blob.
DiscoveryQuery ==
    Class(<<ULong("m_provider"), ULong("m_type"), Blob("specialization")>>,
          <<ULong("m_provider"), ULong("m_type"), Blob("specialization")>>)
DiscoveryQueryReply ==
    Class(<<ULong("m_provider"), ULong("m_type"),
            Alt("m_ex", Obj("DiscoveryException", "m_ex"), Blob("specialization"))>>,
          <<ULong("m_provider"), ULong("m_type"),
            Alt("m_ex", Obj("DiscoveryException", "m_ex"), Blob("specialization"))>>)

\* The timestamp and the payload of the frames and actions.
Timestamp == <<LongLong("sec"), ULongLong("usec")>>

CPUGroupQoS ==
    Class(<<Str("m_cpuScheduleDomain"), Str("m_cpuSet"), ULong("m_runtime"), ULong("m_period"),
            ULong("m_bestEffortWeigth")>>,
          <<Str("m_cpuScheduleDomain"), Str("m_cpuSet"), ULong("m_runtime"), ULong("m_period"),
            ULong("m_bestEffortWeigth")>>)
UIntItem == Class(<<ULong("item")>>, <<ULong("item")>>)
CPUPartition == Class(<<Str("m_path"), List("ulong", "UIntItem", "m_cpus")>>,
                      <<Str("m_path"), List("ulong", "UIntItem", "m_cpus")>>)
\* The policy decides what follows: a priority or a deadline's runtime and period.
CPUQoS == Class(<<Sel("long", "m_policy", << <<Long("m_priority")>>,
                                             <<Long("m_runtime"), Long("m_period")>> >>)>>,
                <<Sel("long", "m_policy", << <<Long("m_priority")>>,
                                             <<Long("m_runtime"), Long("m_period")>> >>)>>)

-----------------------------------------------------------------------------
\* Headers.

SthenoStreamHeader ==
    Class(<<ULong("m_magic"), UShort("m_protocol"), UShort("m_messageType"), ULong("m_requestID"),
            ULong("m_messageSize")>>,
          <<ULong("m_magic"), UShort("m_protocol"), UShort("m_messageType"), ULong("m_requestID"),
            ULong("m_messageSize")>>)
SthenoHeader ==
    Class(<<ULong("m_magic"), UShort("m_protocol"), Octet("m_protocolVersionMajor"),
            Octet("m_protocolVersionMinor"), Id("m_srcPID"), Id("m_srcFID"), Id("m_dstPID"),
            Id("m_dstFID"), UShort("m_messageType"), ULong("m_requestID"), ULong("m_messageSize")>>,
          <<ULong("m_magic"), UShort("m_protocol"), Octet("m_protocolVersionMajor"),
            Octet("m_protocolVersionMinor"), Id("m_srcPID"), Id("m_srcFID"), Id("m_dstPID"),
            Id("m_dstFID"), UShort("m_messageType"), ULong("m_requestID"), ULong("m_messageSize")>>)
MedusaHeader ==
    Class(<<ULong("m_magic"), UShort("m_protocol"), Octet("m_protocolVersionMajor"),
            Octet("m_protocolVersionMinor"), UShort("m_messageType"), ULong("m_requestID"),
            ULong("m_messageSize")>>,
          <<ULong("m_magic"), UShort("m_protocol"), Octet("m_protocolVersionMajor"),
            Octet("m_protocolVersionMinor"), UShort("m_messageType"), ULong("m_requestID"),
            ULong("m_messageSize")>>)

-----------------------------------------------------------------------------
\* The session packet shared by several channels.
InitSessionPacket == Packet("InitSessionPacket", \h283,
    <<Id("m_uuid"), Id("m_fid"), Obj("EndpointQoS", "m_qos")>>,
    <<Id("m_uuid"), Id("m_fid"), Obj("EndpointQoS", "m_qos")>>)

-----------------------------------------------------------------------------
\* Replication group, control.
FTAddReplicaPacket == Packet("FTAddReplicaPacket", \h7873,
    <<Id("m_uuid"), Id("m_fid"), Id("m_rgid"), Obj("OverlayPeerInfo", "m_peer")>>,
    <<Id("m_uuid"), Id("m_fid"), Id("m_rgid"), Obj("OverlayPeerInfo", "m_peer")>>)
FTAddReplicaReplyPacket == Packet("FTAddReplicaReplyPacket", \h872,
    <<ULong("m_packetIDReply"), Bool("m_acception")>>,
    <<ULong("m_packetIDReply"), Bool("m_acception")>>)
FTRemoveReplicaPacket == Packet("FTRemoveReplicaPacket", \h7874,
    <<Id("m_uuid"), Id("m_fid"), Id("m_rgid")>>,
    <<Id("m_uuid"), Id("m_fid"), Id("m_rgid")>>)
FTRemoveReplicaReplyPacket == Packet("FTRemoveReplicaReplyPacket", \h873,
    <<ULong("m_packetIDReply"), Bool("m_acception")>>,
    <<ULong("m_packetIDReply"), Bool("m_acception")>>)
FTInitReplicaPacket == Packet("FTInitReplicaPacket", \h7875,
    <<Id("m_uuid"), Id("m_fid"), Id("m_rgid"), Id("m_sid"), Id("m_iid"),
     Obj("ServiceParams", "m_params"), Obj("OverlayPeerInfo", "m_primary"),
     List("ulong", "OverlayPeerInfo", "m_group")>>,
    <<Id("m_uuid"), Id("m_fid"), Id("m_rgid"), Id("m_sid"), Id("m_iid"),
     Obj("ServiceParams", "m_params"), Obj("OverlayPeerInfo", "m_primary"),
     List("ulong", "OverlayPeerInfo", "m_group")>>)
FTInitReplicaReplyPacket == Packet("FTInitReplicaReplyPacket", \h372,
    <<ULong("m_packetIDReply"), OptSAP("m_ftDataSAPInfo")>>,
    <<ULong("m_packetIDReply"), OptSAP("m_ftDataSAPInfo")>>)
FTPrebindPacket == Packet("FTPrebindPacket", \h1350,
    <<Id("m_uuid"), Id("m_fid"), Id("m_rgid")>>,
    <<Id("m_uuid"), Id("m_fid"), Id("m_rgid")>>)
FTPrebindReplyPacket == Packet("FTPrebindReplyPacket", \h1300,
    <<ULong("m_packetIDReply"), Bool("m_acceptance")>>,
    <<ULong("m_packetIDReply"), Bool("m_acceptance")>>)

-----------------------------------------------------------------------------
\* Replication group, data.
FTDataReplicationPacket == Packet("FTDataReplicationPacket", \h5871,
    <<Blob("m_payload")>>,
    <<Blob("m_payload")>>)
FTDataReplicationReplyPacket == Packet("FTDataReplicationReplyPacket", \h5872,
    <<ULong("m_packetIDReply"), Bool("m_acception")>>,
    <<ULong("m_packetIDReply"), Bool("m_acception")>>)
FTInitDataGroupPacket == Packet("FTInitDataGroupPacket", \h1875,
    <<Id("m_uuid"), Id("m_fid"), Id("m_rgid")>>,
    <<Id("m_uuid"), Id("m_fid"), Id("m_rgid")>>)
FTInitDataGroupReplyPacket == Packet("FTInitDataGroupReplyPacket", \h5879,
    <<ULong("m_packetIDReply"), Bool("m_acception")>>,
    <<ULong("m_packetIDReply"), Bool("m_acception")>>)
FTDataPrebindPacket == Packet("FTDataPrebindPacket", \h2350,
    <<Id("m_uuid"), Id("m_fid"), Id("m_rgid")>>,
    <<Id("m_uuid"), Id("m_fid"), Id("m_rgid")>>)
FTDataPrebindReplyPacket == Packet("FTDataPrebindReplyPacket", \h2300,
    <<ULong("m_packetIDReply"), Bool("m_acceptance")>>,
    <<ULong("m_packetIDReply"), Bool("m_acceptance")>>)

-----------------------------------------------------------------------------
\* Mesh.
P3MeshCreateServicePacket == Packet("P3MeshCreateServicePacket", \h2397,
    <<Obj("ServiceParams", "m_params")>>,
    <<Obj("ServiceParams", "m_params")>>)
P3MeshCreateServiceReplyPacket == Packet("P3MeshCreateServiceReplyPacket", \h7212,
    <<ULong("m_replyPacketID"), Alt("m_exception", Obj("MeshException", "m_exception"), Id("m_iid"))>>,
    <<ULong("m_replyPacketID"), Alt("m_exception", Obj("MeshException", "m_exception"), Id("m_iid"))>>)
P3MeshRemoveServicePacket == Packet("P3MeshRemoveServicePacket", \h8612,
    <<Id("m_sid"), Id("m_iid")>>,
    <<Id("m_sid"), Id("m_iid")>>)
P3MeshRemoveServiceReplyPacket == Packet("P3MeshRemoveServiceReplyPacket", \h3998,
    <<ULong("m_replyPacketID"), Opt(Obj("MeshException", "m_exception"))>>,
    <<ULong("m_replyPacketID"), Opt(Obj("MeshException", "m_exception"))>>)

-----------------------------------------------------------------------------
\* Discovery between super-peers.
P3DiscoveryQueryPacket == Packet("P3DiscoveryQueryPacket", \h1111,
    <<Id("m_uuid"), Id("m_fid"), Obj("EndpointQoS", "m_qos"), Obj("DiscoveryQuery", "m_query")>>,
    <<Id("m_uuid"), Id("m_fid"), Obj("EndpointQoS", "m_qos"), Obj("DiscoveryQuery", "m_query")>>)
P3DiscoveryQueryReplyPacket == Packet("P3DiscoveryQueryReplyPacket", \h1112,
    <<ULong("m_replyPacketID"), Id("m_uuid"), Id("m_fid"), Obj("DiscoveryQueryReply", "m_queryReply")>>,
    <<ULong("m_replyPacketID"), Id("m_uuid"), Id("m_fid"), Obj("DiscoveryQueryReply", "m_queryReply")>>)

-----------------------------------------------------------------------------
\* Cells.
CellInitSession == Packet("CellInitSession", \h288, <<>>, <<>>)
JoinCellPacket == Packet("JoinCellPacket", \h11,
    <<Obj("Endpoint", "m_endpoint"), Obj("Endpoint", "m_followerEndpoint"),
     OptSAP("m_discoverySAP"), OptSAP("m_meshSAP"), OptSAP("m_FTSAP")>>,
    <<Obj("Endpoint", "m_endpoint"), Obj("Endpoint", "m_followerEndpoint"),
     OptSAP("m_discoverySAP"), OptSAP("m_meshSAP"), OptSAP("m_FTSAP")>>)
JoinCellReplyPacket == Packet("JoinCellReplyPacket", \h12,
    <<ULong("m_requestID"), Opt(Blob("m_state"))>>,
    <<ULong("m_requestID"), Opt(Blob("m_state"))>>)
JoinMeshPacket == Packet("JoinMeshPacket", \h13,
    <<Long("m_type"), Id("m_uuid"), Id("m_cellID"), Opt(Id("m_parentCellID")),
     Opt(Obj("Endpoint", "m_endpoint")), OptSAP("m_discoverySAP"), OptSAP("m_meshSAP"), OptSAP("m_ftSAP")>>,
    <<Long("m_type"), Id("m_uuid"), Id("m_cellID"), Opt(Id("m_parentCellID")),
     Opt(Obj("Endpoint", "m_endpoint")), OptSAP("m_discoverySAP"), OptSAP("m_meshSAP"), OptSAP("m_ftSAP")>>)
JoinMeshReplyPacket == Packet("JoinMeshReplyPacket", \h14,
    <<ULong("m_requestID"), Bool("m_acception")>>,
    <<ULong("m_requestID"), Bool("m_acception")>>)
LeaveMeshPacket == Packet("LeaveMeshPacket", \h15,
    <<Id("m_uuid"), Id("m_cellID")>>,
    <<Id("m_uuid"), Id("m_cellID")>>)
LeaveMeshReplyPacket == Packet("LeaveMeshReplyPacket", \h16,
    <<ULong("m_requestID"), Bool("m_acception")>>,
    <<ULong("m_requestID"), Bool("m_acception")>>)
RebindMeshPacket == Packet("RebindMeshPacket", \h17,
    <<Long("m_type"), Id("m_uuid"), Id("m_cellID"), Id("m_parentCellID"),
     Opt(Obj("Endpoint", "m_endpoint")), Opt(Obj("Endpoint", "m_followerEndpoint")),
     OptSAP("m_discoverySAP"), OptSAP("m_meshSAP"), OptSAP("m_ftSAP"), Opt(Blob("m_state"))>>,
    <<Long("m_type"), Id("m_uuid"), Id("m_cellID"), Id("m_parentCellID"),
     Opt(Obj("Endpoint", "m_endpoint")), Opt(Obj("Endpoint", "m_followerEndpoint")),
     OptSAP("m_discoverySAP"), OptSAP("m_meshSAP"), OptSAP("m_ftSAP"), Opt(Blob("m_state"))>>)
RebindMeshReplyPacket == Packet("RebindMeshReplyPacket", \h18,
    <<ULong("m_requestID"), Bool("m_acception")>>,
    <<ULong("m_requestID"), Bool("m_acception")>>)
UpdateInfoPacket == Packet("UpdateInfoPacket", \h19,
    <<Opt(Blob("m_state"))>>,
    <<Opt(Blob("m_state"))>>)
UpdateInfoReplyPacket == Packet("UpdateInfoReplyPacket", \h20,
    <<ULong("m_replyPacketID"), Bool("m_updateStatus")>>,
    <<ULong("m_replyPacketID"), Bool("m_updateStatus")>>)

-----------------------------------------------------------------------------
\* Cell discovery.
RequestCellPacket == Packet("RequestCellPacket", 1, <<>>, <<>>)
RequestCellReplyPacket == Packet("RequestCellReplyPacket", 2,
    <<Obj("CellAddr", "m_cell"), Opt(Id("m_coordinatorUUID")), Opt(Obj("Endpoint", "m_coordinatorEndpoint")),
     Opt(Obj("CellAddr", "m_parentCell")), Opt(Id("m_parentUUID")),
     Opt(Obj("Endpoint", "m_parentCoordinatorEndpoint")), OptSAP("m_discoverySAP"), OptSAP("m_meshSAP"),
     OptSAP("m_ftSAPInfo")>>,
    <<Obj("CellAddr", "m_cell"), Opt(Id("m_coordinatorUUID")), Opt(Obj("Endpoint", "m_coordinatorEndpoint")),
     Opt(Obj("CellAddr", "m_parentCell")), Opt(Id("m_parentUUID")),
     Opt(Obj("Endpoint", "m_parentCoordinatorEndpoint")), OptSAP("m_discoverySAP"), OptSAP("m_meshSAP"),
     OptSAP("m_ftSAPInfo")>>)
CellNotifyPacket == Packet("CellNotifyPacket", 3, <<>>, <<>>)
FindCoordinatorPacket == Packet("FindCoordinatorPacket", 4, <<>>, <<>>)
CoordinatorReplyPacket == Packet("CoordinatorReplyPacket", 5,
    <<Obj("Endpoint", "m_coordinatorEndpoint")>>,
    <<Obj("Endpoint", "m_coordinatorEndpoint")>>)
RequestCoordinatorPacket == Packet("RequestCoordinatorPacket", 6, <<>>, <<>>)
RequestCoordinatorReplyPacket == Packet("RequestCoordinatorReplyPacket", 7,
    <<Id("m_uuid"), Id("m_cellID"), OptSAP("m_meshSAP"), OptSAP("m_discoverySAP"), OptSAP("m_FTSAP"),
     Opt(Obj("Endpoint", "m_coordinatorEndpoint"))>>,
    <<Id("m_uuid"), Id("m_cellID"), OptSAP("m_meshSAP"), OptSAP("m_discoverySAP"), OptSAP("m_FTSAP"),
     Opt(Obj("Endpoint", "m_coordinatorEndpoint"))>>)

-----------------------------------------------------------------------------
\* Leaf peers: actuators and streams.
ActuatorActionPacket == Packet("ActuatorActionPacket", \h5555,
    Timestamp \o <<Blob("m_payload")>>,
    Timestamp \o <<Blob("m_payload")>>)
ActuatorActionReplyPacket == Packet("ActuatorActionReplyPacket", \h1199,
    <<ULong("m_requestID")>> \o Timestamp \o <<Bool("m_acception")>>,
    <<ULong("m_requestID")>> \o Timestamp \o <<Bool("m_acception")>>)
StartStreamPacket == Packet("StartStreamPacket", \h8277,
    <<Id("m_uuid"), Id("m_fid"), Long("m_frameSize"), Long("m_frameRate")>>,
    <<Id("m_uuid"), Id("m_fid"), Long("m_frameSize"), Long("m_frameRate")>>)
StartStreamReplyPacket == Packet("StartStreamReplyPacket", \h8888,
    <<ULong("m_replyPacketID"), Bool("m_returnStatus")>>,
    <<ULong("m_replyPacketID"), Bool("m_returnStatus")>>)
FramePacket == Packet("FramePacket", \h8322,
    <<ULong("m_frameNo"), Long("m_frameSize")>> \o Timestamp \o <<Blob("m_payload")>>,
    <<ULong("m_frameNo"), Long("m_frameSize")>> \o Timestamp \o <<Blob("m_payload")>>)
MissingFramePacket == Packet("MissingFramePacket", \h8323,
    <<Long("m_missingFrameID")>>,
    <<Long("m_missingFrameID")>>)

-----------------------------------------------------------------------------
\* Services.
RPCInvocationOneWayPacket == Packet("RPCInvocationOneWayPacket", \h1119,
    <<Id("m_oid"), Blob("m_payload")>> \o Timestamp,
    <<Id("m_oid"), Blob("m_payload")>> \o Timestamp)
RPCInvocationPacket == Packet("RPCInvocationPacket", \h3122,
    <<Id("m_oid"), Blob("m_payload")>>,
    <<Id("m_oid"), Blob("m_payload")>>)
RPCInvocationReplyPacket == Packet("RPCInvocationReplyPacket", \h2122,
    <<ULong("m_requestID"), Blob("m_payload")>>,
    <<ULong("m_requestID"), Blob("m_payload")>>)
ActionPacket == Packet("ActionPacket", \h3220,
    Timestamp \o <<Blob("m_payload")>>,
    Timestamp \o <<Blob("m_payload")>>)
ActionReplyPacket == Packet("ActionReplyPacket", \h7321,
    <<ULong("m_requestID")>> \o Timestamp \o <<Bool("m_acception")>>,
    <<ULong("m_requestID")>> \o Timestamp \o <<Bool("m_acception")>>)
StartActuatorServicePacket == Packet("StartActuatorServicePacket", \h8477,
    <<Id("m_uuid"), Id("m_fid")>>,
    <<Id("m_uuid"), Id("m_fid")>>)
StartStreamServicePacket == Packet("StartStreamServicePacket", \h8477,
    <<Id("m_uuid"), Id("m_fid")>>,
    <<Id("m_uuid"), Id("m_fid")>>)
ResumeStreamServicePacket == Packet("ResumeStreamServicePacket", \h1417,
    <<Id("m_uuid"), Id("m_fid"), ULong("m_lastFrameNo")>>,
    <<Id("m_uuid"), Id("m_fid"), ULong("m_lastFrameNo")>>)
StreamFramePacket == Packet("StreamFramePacket", \h7322,
    <<ULong("m_frameNo"), Long("m_frameSize")>> \o Timestamp \o <<Blob("m_payload")>>,
    <<ULong("m_frameNo"), Long("m_frameSize")>> \o Timestamp \o <<Blob("m_payload")>>)
\* A frame in a list is a packet of its own, with its header.
FrameItem == Class(<<Obj("SthenoStreamHeader", "header"), Obj("StreamFramePacket", "frame")>>,
                   <<Obj("SthenoStreamHeader", "header"), Obj("StreamFramePacket", "frame")>>)
ResumeStreamReplyPacket == Packet("ResumeStreamReplyPacket", \h1477,
    <<List("ulong", "FrameItem", "m_frameList")>>,
    <<List("ulong", "FrameItem", "m_frameList")>>)
StreamMissingFramePacket == Packet("StreamMissingFramePacket", \h6323,
    <<Long("m_missingFrameID")>>,
    <<Long("m_missingFrameID")>>)

-----------------------------------------------------------------------------
\* Medusa, the daemon that reserves processor time.
ThreadReserveRequestPacket == Packet("ThreadReserveRequestPacket", 0,
    <<ULong("m_task"), Str("m_cgroup"), Str("m_scheGroup"), Obj("CPUQoS", "m_qos")>>,
    <<ULong("m_task"), Str("m_cgroup"), Str("m_scheGroup"), Obj("CPUQoS", "m_qos")>>)
ThreadReserveReplyPacket == Packet("ThreadReserveReplyPacket", 1,
    <<ULong("m_replyID"), Long("m_reply")>>,
    <<ULong("m_replyID"), Long("m_reply")>>)
CPUGroupReserveRequestPacket == Packet("CPUGroupReserveRequestPacket", 2,
    <<Str("m_cgroup"), Obj("CPUGroupQoS", "m_qos")>>,
    <<Str("m_cgroup"), Obj("CPUGroupQoS", "m_qos")>>)
CPUGroupReserveReplyPacket == Packet("CPUGroupReserveReplyPacket", 3,
    <<ULong("m_replyID"), ULong("m_reply")>>,
    <<ULong("m_replyID"), ULong("m_reply")>>)
GetPartitionRequestPacket == Packet("GetPartitionRequestPacket", 4, <<>>, <<>>)
GetPartitionReplyPacket == Packet("GetPartitionReplyPacket", 5,
    <<ULong("m_replyID"), List("ulong", "CPUPartition", "m_partitions")>>,
    <<ULong("m_replyID"), List("ulong", "CPUPartition", "m_partitions")>>)
InitMedusaClientPacket == Packet("InitMedusaClientPacket", 6,
    <<Id("m_clientID")>>,
    <<Id("m_clientID")>>)

-----------------------------------------------------------------------------
\* Specializations of discovery queries, which travel as blobs.
FindPeerQuery == Packet("FindPeerQuery", "FINDPEER_QUERY",
    <<Id("m_uuid")>>,
    <<Id("m_uuid")>>)
FindServiceInstanceQuery == Packet("FindServiceInstanceQuery", "FINDSERVICEINSTANCE_QUERY",
    <<Id("m_sid"), Id("m_iid")>>,
    <<Id("m_sid"), Id("m_iid")>>)
GetSensorsQuery == Packet("GetSensorsQuery", "GETSENSORS_QUERY", <<>>, <<>>)
LaunchServiceSiteQuery == Packet("LaunchServiceSiteQuery", "LAUNCHSERVICESITE_QUERY",
    <<Id("m_sid"), Id("m_requester"), List("long", "UUID", "m_filterPeers")>>,
    <<Id("m_sid"), Id("m_requester"), List("ulong", "UUID", "m_filterPeers")>>)
P3FindPeerQuery == Packet("P3FindPeerQuery", "P3FINDPEER_QUERY",
    <<Long("m_treeLevel")>>,
    <<Long("m_treeLevel")>>)
PeerQuery == Packet("PeerQuery", "ROUTING_QUERY", <<Id("m_uuid")>>, <<Id("m_uuid")>>)
ServiceQuery == Packet("ServiceQuery", "SERVICE_QUERY",
    <<Id("m_sid")>>,
    <<Id("m_sid")>>)

-----------------------------------------------------------------------------
\* Specializations of replies.  m_pi may be a P3PeerInfo, which writes more than is read.
FindPeerQueryReply == Packet("FindPeerQueryReply", "FINDPEER_QUERY_REPLY",
    <<Obj("P3PeerInfo", "m_pi")>>,
    <<Obj("PeerInfo", "m_pi")>>)
FindServiceInstanceQueryReply == Packet("FindServiceInstanceQueryReply", "FINDSERVICEINSTANCE_QUERY_REPLY",
    <<Id("m_sid"), Id("m_fid"), Obj("SAPInfo", "m_sapInfo")>>,
    <<Id("m_sid"), Id("m_sid"), Obj("SAPInfo", "m_sapInfo")>>)
GetSensorsQueryReply == Packet("GetSensorsQueryReply", "GETSENSORS_QUERY_REPLY",
    <<List("long", "SensorInfo", "m_audioSensorList"), List("long", "SensorInfo", "m_videoSensorList"),
     List("long", "SensorInfo", "m_eventSensorList"), List("long", "SensorInfo", "m_actuatorSensorList")>>,
    <<List("long", "SensorInfo", "m_audioSensorList"), List("long", "SensorInfo", "m_videoSensorList"),
     List("long", "SensorInfo", "m_eventSensorList"), List("long", "SensorInfo", "m_actuatorSensorList")>>)
LaunchServiceSiteQueryReply == Packet("LaunchServiceSiteQueryReply", "LAUNCHSERVICESITE_QUERY_REPLY",
    <<Id("m_uuid"), Id("m_fid"), Obj("SAPInfo", "m_meshSAP"), Obj("SAPInfo", "m_ftSAP")>>,
    <<Id("m_uuid"), Id("m_fid"), Obj("SAPInfo", "m_meshSAP"), Obj("SAPInfo", "m_ftSAP")>>)
P3FindPeerQueryReply == Packet("P3FindPeerQueryReply", "P3FINDPEER_QUERY_REPLY",
    <<Obj("P3PeerInfo", "m_pi")>>,
    <<Obj("PeerInfo", "m_pi")>>)
PeerQueryReply == Packet("PeerQueryReply", "ROUTING_QUERY_REPLY",
    <<Obj("P3PeerInfo", "m_info")>>,
    <<Obj("PeerInfo", "m_info")>>)
ServiceQueryReply == Packet("ServiceQueryReply", "SERVICE_QUERY_REPLY",
    <<List("ulong", "ServiceInstanceInfo", "m_list")>>,
    <<List("ulong", "ServiceInstanceInfo", "m_list")>>)

-----------------------------------------------------------------------------
\* Updates that climb the tree of cells, and the specializations of service parameters.
AddServiceUpdateInfo == Packet("AddServiceUpdateInfo", "ADD_SERVICE",
    <<Id("m_pid"), Id("m_fid"), Obj("ServiceInstanceInfo", "m_info")>>,
    <<Id("m_pid"), Id("m_fid"), Obj("ServiceInstanceInfo", "m_info")>>)
RemoveServiceUpdateInfo == Packet("RemoveServiceUpdateInfo", "REMOVE_SERVICE",
    <<Id("m_pid"), Id("m_fid"), Id("m_sid"), Id("m_iid")>>,
    <<Id("m_pid"), Id("m_fid"), Id("m_sid"), Id("m_iid")>>)
ChangegIIDServiceUpdateInfo == Packet("ChangegIIDServiceUpdateInfo", "UPDATE_IID",
    <<Id("m_pid"), Id("m_fid"), Id("m_sid"), Id("m_oldIid"), Id("m_newIid")>>,
    <<Id("m_pid"), Id("m_fid"), Id("m_sid"), Id("m_oldIid"), Id("m_newIid")>>)
SensorInfoUpdate == Packet("SensorInfoUpdate", "SENSOR",
    <<Id("m_uuid"), Obj("Endpoint", "m_endpoint")>>,
    <<Id("m_uuid"), Obj("Endpoint", "m_endpoint")>>)
MediaQoS == Class(<<ULong("m_frameSize"), ULong("m_frameRate")>>,
                  <<ULong("m_frameSize"), ULong("m_frameRate")>>)
ServiceActuatorParams == Packet("ServiceActuatorParams", "ACTUATOR",
    <<List("ulong", "SensorInfo", "m_sensorList"), Obj("MediaQoS", "m_qos")>>,
    <<List("ulong", "SensorInfo", "m_sensorList"), Obj("MediaQoS", "m_qos")>>)
ServiceStreamParams == Packet("ServiceStreamParams", "STREAM",
    <<Id("m_sensorUUID"), Obj("Endpoint", "m_endpoint"), Obj("MediaQoS", "m_qos")>>,
    <<Id("m_sensorUUID"), Obj("Endpoint", "m_endpoint"), Obj("MediaQoS", "m_qos")>>)

-----------------------------------------------------------------------------
\* The tree of cells, which a coordinator hands to a peer that joins.

CellTreeNode(siblings) ==
    LET ints == <<Short("m_port"), Long("m_depth"), Long("m_spanNo"), Long("m_treeSpan"),
                  Long("m_maxSPs"), Long("m_maxSensors"), Long("m_maxMonitor")>>
        peers == <<List("long", "P3PeerInfo", "m_sps"), List("long", "P3PeerInfo", "m_sensors"),
                   List("long", "P3PeerInfo", "m_monitors")>>
    IN  <<Id("m_cellID")>> \o ints \o peers \o siblings
\* A node without children, and the list of the children of a node.
NoSiblings == <<Long("siblings")>>
Siblings == <<List("long", "Sibling", "siblings")>>
Leaf == Class(CellTreeNode(NoSiblings), CellTreeNode(NoSiblings))
Sibling == Class(<<Long("order"), Obj("Leaf", "node")>>, <<Long("order"), Obj("Leaf", "node")>>)
CellTree == Packet("CellTree", "CELLTREE", CellTreeNode(Siblings), CellTreeNode(Siblings))

-----------------------------------------------------------------------------
\* The classes of the members of other classes.
Classes ==
    [UUID |-> UUID, EndpointQoS |-> EndpointQoS, Endpoint |-> Endpoint, SAPInfo |-> SAPInfo,
     OverlayPeerInfo |-> OverlayPeerInfo, ServiceInstanceInfo |-> ServiceInstanceInfo,
     ServiceInfo |-> ServiceInfo, PeerInfo |-> PeerInfo, P3PeerInfo |-> P3PeerInfo,
     CellAddr |-> CellAddr, SensorInfo |-> SensorInfo, FTServiceParams |-> FTServiceParams,
     ServiceParams |-> ServiceParams, MeshException |-> MeshException,
     DiscoveryException |-> DiscoveryException, DiscoveryQuery |-> DiscoveryQuery,
     DiscoveryQueryReply |-> DiscoveryQueryReply, CPUGroupQoS |-> CPUGroupQoS,
     UIntItem |-> UIntItem, CPUPartition |-> CPUPartition, CPUQoS |-> CPUQoS,
     SthenoStreamHeader |-> SthenoStreamHeader, StreamFramePacket |-> StreamFramePacket,
     FrameItem |-> FrameItem, MediaQoS |-> MediaQoS, Leaf |-> Leaf, Sibling |-> Sibling]

-----------------------------------------------------------------------------
\* The factories.

FTControlPacketFactory ==
    {FTAddReplicaPacket, FTAddReplicaReplyPacket, FTRemoveReplicaPacket, FTRemoveReplicaReplyPacket,
     FTInitReplicaPacket, FTInitReplicaReplyPacket, FTPrebindPacket, FTPrebindReplyPacket}
FTDataPacketFactory ==
    {FTDataReplicationPacket, FTDataReplicationReplyPacket, FTInitDataGroupPacket,
     FTInitDataGroupReplyPacket, FTDataPrebindPacket, FTDataPrebindReplyPacket}
P3MeshPacketFactory ==
    {InitSessionPacket, P3MeshCreateServicePacket, P3MeshCreateServiceReplyPacket,
     P3MeshRemoveServicePacket, P3MeshRemoveServiceReplyPacket}
P3DiscoveryPacketFactory ==
    {P3DiscoveryQueryPacket, P3DiscoveryQueryReplyPacket, InitSessionPacket}
CellPacketFactory ==
    {CellInitSession, JoinCellPacket, JoinCellReplyPacket, JoinMeshPacket, JoinMeshReplyPacket,
     LeaveMeshPacket, LeaveMeshReplyPacket, RebindMeshPacket, RebindMeshReplyPacket,
     UpdateInfoPacket, UpdateInfoReplyPacket}
DiscoveryPacketFactory ==
    {RequestCellPacket, RequestCellReplyPacket, CellNotifyPacket, FindCoordinatorPacket,
     CoordinatorReplyPacket, RequestCoordinatorPacket, RequestCoordinatorReplyPacket}
ActuatorPacketFactory == {InitSessionPacket, ActuatorActionPacket, ActuatorActionReplyPacket}
StreamPacketFactory ==
    {StartStreamPacket, StartStreamReplyPacket, FramePacket, MissingFramePacket}
RPCServicePacketFactory ==
    {InitSessionPacket, RPCInvocationOneWayPacket, RPCInvocationPacket, RPCInvocationReplyPacket}
ActuatorServicePacketFactory == {ActionPacket, ActionReplyPacket, StartActuatorServicePacket}
StreamServicePacketFactory ==
    {StartStreamServicePacket, ResumeStreamServicePacket, ResumeStreamReplyPacket,
     StreamFramePacket, StreamMissingFramePacket}
MedusaPacketFactory ==
    {ThreadReserveRequestPacket, ThreadReserveReplyPacket, CPUGroupReserveRequestPacket,
     CPUGroupReserveReplyPacket, GetPartitionRequestPacket, GetPartitionReplyPacket,
     InitMedusaClientPacket}
\* What is made from the blob of a query, a reply, an update or a service's parameters.
Payloads ==
    {FindPeerQuery, FindServiceInstanceQuery, GetSensorsQuery, LaunchServiceSiteQuery,
     P3FindPeerQuery, PeerQuery, ServiceQuery, FindPeerQueryReply, FindServiceInstanceQueryReply,
     GetSensorsQueryReply, LaunchServiceSiteQueryReply, P3FindPeerQueryReply, PeerQueryReply,
     ServiceQueryReply, AddServiceUpdateInfo, RemoveServiceUpdateInfo,
     ChangegIIDServiceUpdateInfo, SensorInfoUpdate, ServiceActuatorParams, ServiceStreamParams,
     CellTree}
=============================================================================
