------------------------------ MODULE Commands ------------------------------
(***************************************************************************)
(* What each command's handler does, in the order it does it: its checks,  *)
(* the gates it passes, the requests it sends.  A handler is the set of    *)
(* its paths, one per combination of its optional steps; what each step    *)
(* means is in Invocation.  Every handler ends by printing its result.     *)
(* The definitions keep the handlers' names.                               *)
(***************************************************************************)
EXTENDS Sequences

Step(do, verb, on) == {<<[do |-> do, verb |-> verb, on |-> on]>>}

P ++ Q == {p \o q : p \in P, q \in Q}
Opt(P) == P \cup {<<>>}

Check   == Step("check", "", "")    \* flags and arguments, before anything is sent
Confirm == Step("gate", "", "")     \* guardSpend, confirmDestructive
Force   == Step("force", "", "")    \* confirmDelete, which also knows the dependents
Client  == Step("client", "", "")   \* getClient
Look    == Step("look", "get", "")  \* a read the command depends on, sent under --dry-run too
TryLook == Step("try", "get", "")   \* the same, but one that gets no answer is passed over
Peek    == Step("peek", "get", "")  \* a read whose failure is not reported
List    == Step("list", "get", "")  \* fetchList

Get(on)    == Step("request", "get", on)
Post(on)   == Step("request", "post", on)
Patch(on)  == Step("request", "patch", on)
Delete(on) == Step("request", "delete", on)

\* Requests api.Client does not build: those of `plivo api`, printed as they
\* come, and those of the agent service's own client.
Raw(verb)      == Step("raw", verb, "Any")
Contacto(verb) == Step("contacto", verb, "Token")

-----------------------------------------------------------------------------
(* voice calls, conferences, multiparty *)

runSubresourceDelete(on) == Client ++ Delete(on)

runCallMake       == Check ++ Client ++ Confirm ++ Post("Call")
runCallHangup     == Confirm ++ Client ++ Delete("Call")
runCallTransfer   == Check ++ Client ++ Post("Call/Transfer")
runCallPlay       == Client ++ Post("Call/Play")
runCallStopPlay   == runSubresourceDelete("Call/Play")
runCallSpeak      == Client ++ Post("Call/Speak")
runCallStopSpeak  == runSubresourceDelete("Call/Speak")
runCallDTMF       == Client ++ Post("Call/DTMF")
runCallRecord     == Client ++ Post("Call/Record")
runCallStopRecord == runSubresourceDelete("Call/Record")
runCallListLive   == Check ++ Client ++ Get("Call")
runCallList       == runCallListLive \cup Check ++ Client ++ List
runCallGetLive    == Get("Call")
runCallGet        == Client ++ (runCallGetLive \cup Get("Call"))

doConferenceDelete(on)     == Client ++ Delete(on)
doConferenceMemberPost(on) == Client ++ Post(on)
doConferenceMemberCall(P)  == Client ++ P

runConferenceList       == Client ++ Get("Conference")
runConferenceGet        == Client ++ Get("Conference")
runConferenceHangup     == Confirm ++ doConferenceDelete("Conference")
runConferenceRecord     == Client ++ Post("Conference/Record")
runConferenceStopRecord == Confirm ++ doConferenceDelete("Conference/Record")
runConferenceMemberKick == Confirm ++ doConferenceMemberCall(Post("Member/Kick"))
runConferenceMemberMute      == doConferenceMemberPost("Member/Mute")
runConferenceMemberUnmute    == doConferenceMemberCall(Delete("Member/Mute"))
runConferenceMemberDeaf      == doConferenceMemberPost("Member/Deaf")
runConferenceMemberUndeaf    == doConferenceMemberCall(Delete("Member/Deaf"))
runConferenceMemberPlay      == doConferenceMemberPost("Member/Play")
runConferenceMemberStopPlay  == doConferenceMemberCall(Delete("Member/Play"))
runConferenceMemberSpeak     == doConferenceMemberPost("Member/Speak")
runConferenceMemberStopSpeak == doConferenceMemberCall(Delete("Member/Speak"))

mpcParticipantUpdate == Client ++ Post("Participant/Update")
mpcParticipantKick   == Client ++ Delete("Participant")

runMPCList     == Check ++ Client ++ List
runMPCGet      == Client ++ Get("MultiPartyCall")
runMPCEnd      == Confirm ++ Client ++ Delete("MultiPartyCall")
runMPCPartList == Client ++ Get("Participant")
runMPCPartAdd  == Client ++ Confirm ++ Post("Participant")
runMPCPartKick == Confirm ++ mpcParticipantKick

runStreamList  == Client ++ Get("Stream")
runStreamGet   == Client ++ Get("Stream")
runStreamStart == Check ++ Client ++ Post("Stream/Start")
runStreamStop  == Confirm ++ Client ++ Delete("Stream")

Voice ==
    runCallMake \cup runCallHangup \cup runCallTransfer \cup runCallPlay
    \cup runCallStopPlay \cup runCallSpeak \cup runCallStopSpeak \cup runCallDTMF
    \cup runCallRecord \cup runCallStopRecord \cup runCallList \cup runCallGet
    \cup runConferenceList \cup runConferenceGet \cup runConferenceHangup
    \cup runConferenceRecord \cup runConferenceStopRecord \cup runConferenceMemberKick
    \cup runConferenceMemberMute \cup runConferenceMemberUnmute
    \cup runConferenceMemberDeaf \cup runConferenceMemberUndeaf
    \cup runConferenceMemberPlay \cup runConferenceMemberStopPlay
    \cup runConferenceMemberSpeak \cup runConferenceMemberStopSpeak
    \cup runMPCList \cup runMPCGet \cup runMPCEnd \cup runMPCPartList
    \cup runMPCPartAdd \cup runMPCPartKick \cup mpcParticipantUpdate
    \cup runStreamList \cup runStreamGet \cup runStreamStart \cup runStreamStop

-----------------------------------------------------------------------------
(* messaging, numbers, lookup, verify *)

runMessageSendForChannel == Client ++ Confirm ++ Post("Message")
runMessageListForChannel == Check ++ Client ++ List
runMessageGet            == Client ++ Get("Message")

\* What a number update reads before it may route the number: the trunk, and
\* the compliance application of an Indian number unless --force.
requireInboundTrunk   == TryLook ++ Check
checkIndiaCompliance  == Opt(Look ++ Check ++ Look ++ Check)

runNumberList    == Check ++ Client ++ List
runNumberGet     == Client ++ Get("Number")
runNumberSearch  == Check ++ Client ++ Get("PhoneNumber")
runNumberBuy     == Check ++ Confirm ++ Client ++ Post("PhoneNumber")
runNumberUpdate  == Check ++ Client ++ Opt(requireInboundTrunk) ++ Check
                      ++ checkIndiaCompliance ++ Post("Number")
runNumberRelease == Confirm ++ Client ++ Delete("Number")
runCnam          == Client ++ Confirm ++ Get("Cnam")
runLookup        == Client ++ Get("Lookup")

runVerifySessionCreate   == Client ++ Confirm ++ Post("Verify/Session")
runVerifySessionGet      == Client ++ Get("Verify/Session")
runVerifySessionList     == Check ++ Client ++ List
runVerifySessionValidate == Check ++ Client ++ Post("Verify/Validate")

runMaskingCreate == Client ++ Confirm ++ Post("Masking/Session")
runMaskingGet    == Client ++ Get("Masking/Session")
runMaskingList   == Client ++ List
runMaskingDelete == Confirm ++ Client ++ Delete("Masking/Session")

runBrandList      == Client ++ List
runBrandGet       == Client ++ Get("Brand")
runBrandCreate    == Check ++ Client ++ Confirm ++ Post("Brand")
runCampaignList   == Client ++ List
runCampaignGet    == Client ++ Get("Campaign")
runCampaignCreate == Client ++ Confirm ++ Post("Campaign")
runCampaignUpdate == Check ++ Client ++ Confirm ++ Post("Campaign/Update")

runTfvList   == Check ++ Client ++ List
runTfvGet    == Client ++ Get("TollfreeVerification")
runTfvSubmit == Client ++ Post("TollfreeVerification")

runPowerpackList         == Client ++ List
runPowerpackGet          == Client ++ Get("Powerpack")
runPowerpackCreate       == Client ++ Post("Powerpack")
runPowerpackUpdate       == Check ++ Client ++ Post("Powerpack/Update")
runPowerpackDelete       == Confirm ++ Client ++ Delete("Powerpack")
runPowerpackNumberList   == Client ++ List
runPowerpackNumberAdd    == Client ++ Post("Powerpack/Number")
runPowerpackNumberRemove == Confirm ++ Client ++ Delete("Powerpack/Number")

runLinkList   == Check ++ Client ++ List
runLinkCreate == Client ++ Post("Link")
runLinkDelete == Confirm ++ Client ++ Delete("Link")

\* Documents go as multipart forms, through DoMultipart.
runComplianceRequirements == Client ++ Get("Compliance/Requirements")
runComplianceCreate == Check ++ Client ++ Post("Compliance")
runComplianceGet    == Client ++ Get("Compliance")
runComplianceList   == Check ++ Client ++ List
runComplianceUpdate == Check ++ Client ++ Patch("Compliance")
runComplianceDelete == Confirm ++ Client ++ Delete("Compliance")
runComplianceLink   == Check ++ Client ++ Post("Compliance/Link")

MessagingAndNumbers ==
    runMessageSendForChannel \cup runMessageListForChannel \cup runMessageGet
    \cup runNumberList \cup runNumberGet \cup runNumberSearch \cup runNumberBuy
    \cup runNumberUpdate \cup runNumberRelease \cup runCnam \cup runLookup
    \cup runVerifySessionCreate \cup runVerifySessionGet \cup runVerifySessionList
    \cup runVerifySessionValidate \cup runMaskingCreate \cup runMaskingGet
    \cup runMaskingList \cup runMaskingDelete \cup runBrandList \cup runBrandGet
    \cup runBrandCreate \cup runCampaignList \cup runCampaignGet \cup runCampaignCreate
    \cup runCampaignUpdate \cup runTfvList \cup runTfvGet \cup runTfvSubmit
    \cup runPowerpackList \cup runPowerpackGet \cup runPowerpackCreate
    \cup runPowerpackUpdate \cup runPowerpackDelete \cup runPowerpackNumberList
    \cup runPowerpackNumberAdd \cup runPowerpackNumberRemove \cup runLinkList
    \cup runLinkCreate \cup runLinkDelete \cup runComplianceRequirements
    \cup runComplianceCreate \cup runComplianceGet \cup runComplianceList
    \cup runComplianceUpdate \cup runComplianceDelete \cup runComplianceLink

-----------------------------------------------------------------------------
(* account, applications, agents, recordings *)

runAccountGet    == Client ++ Get("Account")
runAccountUpdate == Check ++ Client ++ Post("Account")
runAccountUsage  == Check ++ Client ++ List
runAuthWhoami    == Client ++ Get("Account")
runSubList   == Client ++ List
runSubGet    == Client ++ Get("Subaccount")
runSubCreate == Client ++ Post("Subaccount")
runSubUpdate == Check ++ Client ++ Post("Subaccount/Update")
runSubDelete == Confirm ++ Client ++ Delete("Subaccount")
runAppList   == Client ++ List
runAppGet    == Client ++ Get("Application")
runAppCreate == Client ++ Post("Application")
runAppUpdate == Client ++ Post("Application/Update")
runAppDelete == Check ++ Confirm ++ Client ++ Delete("Application")

runAgentLifecycle     == Client ++ Post("AgentFlow/State")
runAgentCreate        == Check ++ Client ++ Post("AgentFlow")
runAgentList          == Check ++ Client ++ List
runAgentGet           == Client ++ Get("AgentFlow")
runAgentUpdate        == Check ++ Client ++ Post("AgentFlow/Update")
runAgentDelete        == Confirm ++ Client ++ Delete("AgentFlow")
runAgentRunsList      == Client ++ List
runAgentRunsGet       == Client ++ Get("AgentFlow/Run")
runAgentFlowNodesList == Client ++ Get("AgentFlow/Node")
runAgentFlowNodesGet  == Client ++ Get("AgentFlow/Node")

runRecordingList   == Check ++ Client ++ List
runRecordingGet    == Client ++ Get("Recording")
runRecordingDelete == Confirm ++ Client ++ Delete("Recording")

\* Without --agent; with it a second write follows the first (below).
runEndpointList   == Client ++ List
runEndpointGet    == Client ++ Get("Endpoint")
runEndpointDelete == Confirm ++ Client ++ Delete("Endpoint")
EndpointCreate    == Check ++ Client ++ Post("Endpoint")
EndpointUpdate    == Check ++ Client ++ Post("Endpoint/Update")

AccountAndAgents ==
    runAccountGet \cup runAccountUpdate \cup runAccountUsage \cup runAuthWhoami
    \cup runSubList \cup runSubGet \cup runSubCreate \cup runSubUpdate \cup runSubDelete
    \cup runAppList \cup runAppGet \cup runAppCreate \cup runAppUpdate \cup runAppDelete
    \cup runAgentLifecycle \cup runAgentCreate \cup runAgentList \cup runAgentGet
    \cup runAgentUpdate \cup runAgentDelete \cup runAgentRunsList \cup runAgentRunsGet
    \cup runAgentFlowNodesList \cup runAgentFlowNodesGet
    \cup runRecordingList \cup runRecordingGet \cup runRecordingDelete
    \cup runEndpointList \cup runEndpointGet \cup runEndpointDelete
    \cup EndpointCreate \cup EndpointUpdate

-----------------------------------------------------------------------------
(* sip: what SipTrunks has in detail, as one command among the others *)

readTrunk      == Look
storedUsername == Look ++ Check

runSIPCallsList    == Check ++ Client ++ List
runSIPCallsGet     == Client ++ Get("Zentrunk/Call")
runSIPCallsInsights == Client ++ Get("Zentrunk/Insights")
runSIPTrunksList   == Check ++ Client ++ List
runSIPTrunksGet    == Client ++ Get("Zentrunk/Trunk")
runSIPTrunksCreate == Check ++ Client ++ Post("Zentrunk/Trunk") ++ Opt(Peek)
runSIPTrunksUpdate == Check ++ Client ++ Check ++ Opt(readTrunk) ++ Check
                        ++ Post("Zentrunk/Trunk/Update")
runSIPTrunksDelete == Client ++ Look ++ Force ++ Delete("Zentrunk/Trunk")
runSIPURIsList     == Client ++ List
runSIPURIsGet      == Client ++ Get("Zentrunk/URI")
runSIPURIsCreate   == Check ++ Client ++ Check ++ Post("Zentrunk/URI")
runSIPURIsUpdate   == Check ++ Client ++ Check ++ Opt(storedUsername) ++ Check
                        ++ Post("Zentrunk/URI/Update")
runSIPCredsList    == Client ++ List
runSIPCredsGet     == Client ++ Get("Zentrunk/Credential")
runSIPCredsCreate  == Check ++ Client ++ Post("Zentrunk/Credential")
runSIPCredsUpdate  == Check ++ Client ++ Check ++ Opt(storedUsername) ++ Check
                        ++ Post("Zentrunk/Credential/Update")
runSIPACLList      == Client ++ List
runSIPACLGet       == Client ++ Get("Zentrunk/IPACL")
runSIPACLCreate    == Check ++ Client ++ Post("Zentrunk/IPACL")
runSIPACLUpdate    == Check ++ Client ++ Check ++ Post("Zentrunk/IPACL/Update")

trunksAfterURIDelete == Peek
deleteSIPObject(on)  == Client ++ Look ++ Force ++ Delete(on)
runSIPURIsDelete     == deleteSIPObject("Zentrunk/URI") ++ Opt(trunksAfterURIDelete)
runSIPCredsDelete    == deleteSIPObject("Zentrunk/Credential")
runSIPACLDelete      == deleteSIPObject("Zentrunk/IPACL")

Sip ==
    runSIPCallsList \cup runSIPCallsGet \cup runSIPCallsInsights \cup runSIPTrunksList
    \cup runSIPTrunksGet \cup runSIPTrunksCreate \cup runSIPTrunksUpdate
    \cup runSIPTrunksDelete \cup runSIPURIsList \cup runSIPURIsGet \cup runSIPURIsCreate
    \cup runSIPURIsUpdate \cup runSIPURIsDelete \cup runSIPCredsList \cup runSIPCredsGet
    \cup runSIPCredsCreate \cup runSIPCredsUpdate \cup runSIPCredsDelete
    \cup runSIPACLList \cup runSIPACLGet \cup runSIPACLCreate \cup runSIPACLUpdate
    \cup runSIPACLDelete

-----------------------------------------------------------------------------
(* `plivo api`, and the scoped tokens of internal builds *)

\* The method is the user's; one that only reads needs no --yes.
apiRead  == Check ++ Client ++ Raw("get")
apiWrite == Check ++ Confirm ++ Client ++ (Raw("post") \cup Raw("delete"))
runAPI   == apiRead \cup apiWrite

runAuthTokenMint   == Check ++ Client ++ Contacto("post")
runAuthTokenList   == Client ++ Raw("get")
runAuthTokenRevoke == Check ++ Client ++ Contacto("delete")

\* endpoints create and update with --agent: the link follows the first write.
linkEndpointAgent == Post("Endpoint/Link")

runEndpointCreate == EndpointCreate ++ Opt(linkEndpointAgent)
runEndpointUpdate == EndpointUpdate
                     \cup (Check ++ Client ++ Opt(Post("Endpoint/Update")) ++ linkEndpointAgent)

\* Commands that send at most one write, through api.Client.
OneWrite ==
    Voice \cup MessagingAndNumbers \cup AccountAndAgents \cup Sip
    \cup apiRead \cup runAuthTokenList

EveryCommand ==
    OneWrite \cup runEndpointCreate \cup runEndpointUpdate \cup runAPI
    \cup runAuthTokenMint \cup runAuthTokenRevoke
=============================================================================
