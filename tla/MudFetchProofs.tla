---------------------------- MODULE MudFetchProofs ----------------------------
(***************************************************************************)
(* MudFetch implements MudManager and keeps its types, what it parses      *)
(* without the -i option is a genuine version of the file of the event's   *)
(* URL, and a device is left without its file only for a cause: for every  *)
(* set of URLs, of versions, and of sites that share a file name.          *)
(***************************************************************************)
EXTENDS MudFetch, MudManagerProofs

-----------------------------------------------------------------------------
(* The refinement.  Whether the three outcomes of a retrieval agree with    *)
(* what the server has is not for MudManager to say: that module only      *)
(* lets them fail.                                                         *)

RetrievalFails == "fetch" \in Faults

LEMMA GiveUpRetrieves ==
    ASSUME RetrievalFails, pc = "retrieve", GiveUp
    PROVE  Retrieve
  <1>1. \E gotMud, gotSig \in GetOpenMudFile, valid \in VerifyCmsSignature : ~gotMud
    BY DEF RetrievalFails, GetOpenMudFile, VerifyCmsSignature
  <1> QED
    BY <1>1 DEF GiveUp, Retrieve

LEMMA VerifiedRetrieves ==
    ASSUME pc = "retrieve", pc' = "record", UNCHANGED <<uciVars, localVars, fileVars>>
    PROVE  Retrieve
  <1>1. TRUE \in GetOpenMudFile /\ TRUE \in VerifyCmsSignature
    BY DEF GetOpenMudFile, VerifyCmsSignature
  <1> QED
    BY <1>1 DEF Retrieve

(* With the -i option given or not, a step is one of MudManager, or gives   *)
(* up on a retrieval.                                                       *)
LEMMA StepOrGiveUp ==
    ASSUME [FetchNext]_allVars
    PROVE  [Next]_vars \/ (pc = "retrieve" /\ GiveUp)
  <1>1. ASSUME NEW u \in Url, Publish(u)
        PROVE  UNCHANGED vars
    BY <1>1 DEF Publish
  <1>2. CASE OpenMudFile \/ OpenSigFile
    BY <1>2 DEF OpenMudFile, OpenSigFile, GoOn
  <1>3. CASE GetMudFile \/ GetSigFile
    BY <1>3 DEF GetMudFile, GetSigFile, GoOn, At
  <1>4. CASE ValidateMudFileWithSig
    <2>1. pc = "retrieve"
      BY <1>4 DEF ValidateMudFileWithSig, At
    <2>2. GiveUp \/ (pc' = "record" /\ UNCHANGED <<uciVars, localVars, fileVars>>)
      BY <1>4 DEF ValidateMudFileWithSig
    <2> QED
      BY <2>1, <2>2, VerifiedRetrieves DEF Next
  <1>5. CASE ParseStoredFile \/ CrashOnStoredFile
    BY <1>5 DEF ParseStoredFile, CrashOnStoredFile, Next, Handle, Fail
  <1>6. CASE HandleEvent \/ TakeEvent
    BY <1>6 DEF HandleEvent, TakeEvent, Next
  <1>7. CASE Die \/ PowerCycle \/ StartAgain
    BY <1>7 DEF Die, PowerCycle, StartAgain, Next, Fail
  <1>8. CASE UNCHANGED allVars
    BY <1>8 DEF allVars
  <1> QED
    BY <1>1, <1>2, <1>3, <1>4, <1>5, <1>6, <1>7, <1>8 DEF FetchNext

LEMMA StepImplements ==
    ASSUME RetrievalFails, [FetchNext]_allVars
    PROVE  [Next]_vars
  BY StepOrGiveUp, GiveUpRetrieves DEF Next

(* The downloads one by one, with the files they leave behind, are an       *)
(* implementation of MudManager, where retrieval is a single step that may *)
(* fail: what is proved of MudManager for that case holds here too.        *)
THEOREM ImplementsMudManagerCorrect ==
    ASSUME RetrievalFails
    PROVE  FetchSpec => ImplementsMudManager
  <1>1. FetchInit => Init
    BY DEF FetchInit
  <1>2. RetrievalFails => ([FetchNext]_allVars => [Next]_vars)
    BY StepImplements
  <1> QED
    BY <1>1, <1>2, PTL DEF FetchSpec, Spec, ImplementsMudManager

-----------------------------------------------------------------------------
(* What is stored. *)

(* A MUD file and a signature are never stored in the same place. *)
LEMMA LocationsDiffer ==
    ASSUME NEW u \in Url
    PROVE  MudLocation(u) # SigLocation(u)
  <1>1. Parts[u].ext # P7s
    BY FetchAssumption
  <1>2. ReplaceExtension(Parts[u], P7s).ext = P7s
    BY FetchAssumption DEF ReplaceExtension
  <1> QED
    BY <1>1, <1>2 DEF MudLocation, SigLocation, CreateStorageLocation, CreateSigUrlFromMudUrl

(* The server answers the MUD URL with the file of that URL. *)
LEMMA ServedMud ==
    ASSUME NEW u \in Url
    PROVE  Served(Parts[u]) = [is |-> "mud", url |-> u, version |-> version[u]]
  <1> DEFINE owner == CHOOSE w \in Url : Parts[u] = Parts[w]
  <1>1. owner \in Url /\ Parts[u] = Parts[owner]
    OBVIOUS
  <1>2. owner = u
    BY <1>1, FetchAssumption
  <1> QED
    BY <1>2 DEF Served

(* A version of the file of a URL, published between two others. *)
Genuine(c, u, first, last) ==
    /\ c \in Content("mud")
    /\ c.url = u
    /\ c.version \in first..last

StoredMud == files[MudLocation(event.url)]

(* ParsedIsGenuine, strengthened by where the versions come from: once the  *)
(* download is over, the file is genuine or no MUD file at all; the         *)
(* signature tells the two apart, and what has been checked is not written *)
(* again while it is used.                                                 *)
FetchInv ==
    /\ version \in [Url -> Nat \ {0}]
    /\ DOMAIN files = Locations
    /\ since \in Nat
    /\ pc \in {"retrieve", "record", "parse"} => event.url \in Url
    /\ pc # "retrieve" => stage = "openMud"
    /\ stage # "openMud" => since <= version[event.url]
    /\ stage \in {"openSig", "getSig", "verify"} /\ StoredMud \in Content("mud") =>
          Genuine(StoredMud, event.url, since, version[event.url])
    /\ pc \in {"record", "parse"} /\ ~noFail =>
          Genuine(StoredMud, event.url, since, version[event.url])

LEMMA InitFetch == FetchInit => FetchInv
  BY DEF FetchInit, Init, FetchInv

LEMMA GenuineStays ==
    ASSUME NEW c, NEW u, NEW first \in Nat, NEW last \in Nat, NEW later \in Nat,
           last <= later, Genuine(c, u, first, last)
    PROVE  Genuine(c, u, first, later)
  BY DEF Genuine

(* Stages that leave the server, the files and the event alone. *)
LEMMA OtherStages ==
    ASSUME FetchInv, UNCHANGED <<version, files, noFail, since>>, stage' = "openMud",
           \/ pc' \notin {"retrieve", "record", "parse"}
           \/ event' = event /\ pc \in {"record", "parse"} /\ pc' # "retrieve"
           \/ event'.url \in Url /\ pc' = "retrieve"
    PROVE  FetchInv'
  <1>1. CASE pc' \notin {"retrieve", "record", "parse"}
    BY <1>1 DEF FetchInv
  <1>2. CASE event' = event /\ pc \in {"record", "parse"} /\ pc' # "retrieve"
    BY <1>2 DEF FetchInv, StoredMud, Genuine
  <1>3. CASE event'.url \in Url /\ pc' = "retrieve"
    BY <1>3 DEF FetchInv
  <1> QED
    BY <1>1, <1>2, <1>3

LEMMA PublishFetch ==
    ASSUME FetchInv, NEW u \in Url, Publish(u)
    PROVE  FetchInv'
  <1>1. /\ version' \in [Url -> Nat \ {0}]
        /\ \A w \in Url : version[w] \in Nat /\ version'[w] \in Nat /\ version[w] <= version'[w]
    BY DEF FetchInv, Publish
  <1>2. UNCHANGED <<files, noFail, stage, since, pc, event>>
    BY DEF Publish, vars, localVars
  <1>3. since \in Nat
    BY DEF FetchInv
  <1>4. ASSUME event.url \in Url, Genuine(StoredMud, event.url, since, version[event.url])
        PROVE  Genuine(StoredMud, event.url, since, version'[event.url])
    BY <1>1, <1>3, <1>4, GenuineStays
  <1>5. pc \in {"record", "parse"} /\ ~noFail =>
           Genuine(StoredMud, event.url, since, version'[event.url])
    BY <1>4 DEF FetchInv
  <1>6. stage \in {"openSig", "getSig", "verify"} => pc = "retrieve" /\ event.url \in Url
    BY DEF FetchInv
  <1>7. stage \in {"openSig", "getSig", "verify"} /\ StoredMud \in Content("mud") =>
               Genuine(StoredMud, event.url, since, version'[event.url])
    BY <1>4, <1>6 DEF FetchInv
  <1>8. stage # "openMud" => since <= version'[event.url]
    BY <1>1, <1>3 DEF FetchInv
  <1>9. StoredMud' = StoredMud
    BY <1>2 DEF StoredMud
  <1> QED
    BY <1>1, <1>2, <1>3, <1>5, <1>7, <1>8, <1>9 DEF FetchInv

LEMMA OpenMudFetch ==
    ASSUME FetchInv, OpenMudFile
    PROVE  FetchInv'
  <1>1. /\ pc = "retrieve" /\ pc' = "retrieve" /\ event' = event
        /\ version' = version /\ since' = version[event.url] /\ stage' = "getMud"
        /\ DOMAIN files' = DOMAIN files
    BY DEF OpenMudFile, At, GoOn, Write, vars, localVars
  <1> QED
    BY <1>1 DEF FetchInv

LEMMA GetMudFetch ==
    ASSUME FetchInv, GetMudFile
    PROVE  FetchInv'
  <1>1. /\ pc = "retrieve" /\ stage = "getMud" /\ UNCHANGED <<version, noFail, since>>
        /\ event.url \in Url /\ version[event.url] \in Nat \ {0}
        /\ since \in Nat /\ since <= version[event.url]
    BY DEF GetMudFile, At, FetchInv
  <1>2. CASE GiveUp /\ UNCHANGED files
    BY <1>1, <1>2, OtherStages DEF GiveUp
  <1>3. ASSUME NEW c, Write(MudLocation(event.url), c), GoOn("openSig"),
               c = Served(Parts[event.url]) \/ c = ErrorPage
        PROVE  FetchInv'
    <2>1. pc' = "retrieve" /\ event' = event /\ stage' = "openSig"
      BY <1>1, <1>3 DEF GoOn, vars, localVars
    <2>2. DOMAIN files' = Locations
      BY <1>3 DEF Write, FetchInv
    <2>3. MudLocation(event.url) \in DOMAIN files
      BY <1>1 DEF FetchInv, Locations
    <2>4. StoredMud' = c
      BY <1>3, <2>1, <2>3 DEF StoredMud, Write
    <2>5. c \in Content("mud") => Genuine(c, event.url, since, version[event.url])
      <3>1. CASE c = ErrorPage
        BY <3>1, FetchAssumption
      <3>2. CASE c = Served(Parts[event.url])
        <4> DEFINE v == version[event.url]
        <4>1. c = [is |-> "mud", url |-> event.url, version |-> v]
          BY <1>1, <3>2, ServedMud
        <4>2. v \in since..v
          BY <1>1
        <4> HIDE DEF v
        <4>3. c.url = event.url /\ c.version \in since..v
          BY <4>1, <4>2
        <4> QED
          BY <4>3 DEF Genuine, v
      <3> QED
        BY <1>3, <3>1, <3>2
    <2> QED
      BY <1>1, <2>1, <2>2, <2>4, <2>5 DEF FetchInv
  <1> QED
    BY <1>2, <1>3 DEF GetMudFile

(* Neither opening nor filling the signature's file touches the MUD file.   *)
LEMMA SigFetch ==
    ASSUME FetchInv, OpenSigFile \/ GetSigFile
    PROVE  FetchInv'
  <1>1. /\ pc = "retrieve" /\ stage \in {"openSig", "getSig"} /\ event.url \in Url
        /\ UNCHANGED <<version, noFail, since>>
    BY DEF OpenSigFile, GetSigFile, At, FetchInv
  <1>2. CASE GiveUp /\ UNCHANGED files
    BY <1>1, <1>2, OtherStages DEF GiveUp
  <1>3. CASE /\ UNCHANGED vars /\ stage' \in {"getSig", "verify"}
             /\ \/ files' = files
                \/ \E c : files' = [files EXCEPT ![SigLocation(event.url)] = c]
    <2>1. pc' = "retrieve" /\ event' = event
      BY <1>1, <1>3 DEF vars, localVars
    <2>2. DOMAIN files' = Locations
      BY <1>3 DEF FetchInv
    <2>3. MudLocation(event.url) # SigLocation(event.url)
      BY <1>1, LocationsDiffer
    <2>4. files'[MudLocation(event.url)] = files[MudLocation(event.url)]
      <3>1. MudLocation(event.url) \in DOMAIN files
        BY <1>1 DEF FetchInv, Locations
      <3> QED
        BY <1>3, <2>3, <3>1
    <2>5. StoredMud' = StoredMud
      BY <2>1, <2>4 DEF StoredMud
    <2> QED
      BY <1>1, <1>3, <2>1, <2>2, <2>5 DEF FetchInv
  <1> QED
    BY <1>2, <1>3 DEF OpenSigFile, GetSigFile, GoOn, Write

LEMMA VerifyFetch ==
    ASSUME FetchInv, ValidateMudFileWithSig
    PROVE  FetchInv'
  <1>1. /\ pc = "retrieve" /\ stage = "verify" /\ stage' = "openMud" /\ event.url \in Url
        /\ UNCHANGED <<version, files, noFail, since>>
    BY DEF ValidateMudFileWithSig, At, FetchInv, GiveUp
  <1>2. CASE GiveUp
    BY <1>1, <1>2, OtherStages DEF GiveUp
  <1>3. CASE /\ pc' = "record" /\ UNCHANGED localVars
             /\ \/ ValidSignature(files[SigLocation(event.url)], files[MudLocation(event.url)])
                \/ noFail
    <2>1. event' = event
      BY <1>3 DEF localVars
    <2>2. StoredMud' = StoredMud
      BY <1>1, <2>1 DEF StoredMud
    <2>3. ~noFail => Genuine(StoredMud, event.url, since, version[event.url])
      BY <1>1, <1>3 DEF FetchInv, ValidSignature, StoredMud
    <2> QED
      BY <1>1, <1>3, <2>1, <2>2, <2>3 DEF FetchInv
  <1> QED
    BY <1>2, <1>3 DEF ValidateMudFileWithSig

LEMMA NextFetch == FetchInv /\ [FetchNext]_allVars => FetchInv'
  <1> SUFFICES ASSUME FetchInv, [FetchNext]_allVars
               PROVE  FetchInv'
    OBVIOUS
  <1>1. CASE ParseStoredFile
    BY <1>1, OtherStages DEF ParseStoredFile, ParseMudFile, fetchVars, FetchInv
  <1>2. CASE CrashOnStoredFile
    BY <1>2, OtherStages DEF CrashOnStoredFile, CrashOnJson, Stop, fetchVars, FetchInv
  <1>3. CASE HandleEvent
    <2>1. \/ pc' \notin {"retrieve", "record", "parse"}
          \/ pc = "record" /\ pc' = "parse" /\ event' = event
      <3>1. CASE RecordMudDevice
        BY <3>1 DEF RecordMudDevice, localVars
      <3>2. CASE \/ RecordLegacyDevice \/ RecordMudDeviceAgain \/ ClearEvent
                 \/ StartRemove \/ FailRemove \/ RemoveRule \/ EndRemove
                 \/ RemoveMudDbDeviceEntry \/ FinishTransaction
        BY <3>2 DEF RecordLegacyDevice, RecordMudDeviceAgain, ClearEvent,
                    StartRemove, FailRemove, RemoveRule, EndRemove, AfterRemove,
                    RemoveMudDbDeviceEntry, FinishTransaction, AfterFinish
      <3>3. CASE \/ SkipMissingAcl \/ EnterAcl \/ LeaveAcl \/ SkipAce \/ ResolveAce
                 \/ LeaveAce \/ InstallAnswer \/ InstallRejectAll
        BY <3>3 DEF SkipMissingAcl, EnterAcl, LeaveAcl, SkipAce, ResolveAce,
                    LeaveAce, InstallAnswer, InstallRejectAll
      <3>4. CASE ParseMudFile
        BY <3>4 DEF ParseMudFile
      <3> QED
        BY <1>3, <3>1, <3>2, <3>3, <3>4 DEF HandleEvent, Handle
    <2>2. pc # "retrieve"
      BY <1>3 DEF HandleEvent, Handle, RecordMudDevice, RecordLegacyDevice,
                  RecordMudDeviceAgain, ClearEvent, ParseMudFile,
                  StartRemove, FailRemove, RemoveRule, EndRemove,
                  RemoveMudDbDeviceEntry, FinishTransaction,
                  SkipMissingAcl, EnterAcl, LeaveAcl, SkipAce, ResolveAce,
                  LeaveAce, InstallAnswer, InstallRejectAll
    <2> QED
      BY <1>3, <2>1, <2>2, OtherStages DEF HandleEvent, fetchVars, FetchInv
  <1>4. CASE TakeEvent
    <2>1. PICK e \in Events : Dispatch(e) /\ UNCHANGED fetchVars
      BY <1>4 DEF TakeEvent
    <2>2. pc' = "retrieve" => event'.url \in Url
      BY <2>1, EventAssumption DEF Dispatch, Event
    <2>3. pc = "idle" /\ pc' \notin {"record", "parse"}
      BY <2>1 DEF Dispatch
    <2> QED
      BY <2>1, <2>2, <2>3, OtherStages DEF fetchVars, FetchInv
  <1>5. CASE Die \/ PowerCycle
    <2>1. pc' = "down" /\ stage' = "openMud" /\ UNCHANGED <<version, since>>
      BY <1>5 DEF Die, PowerCycle, Kill, Stop, Reboot
    <2>2. DOMAIN files' = Locations
      BY <1>5 DEF Die, PowerCycle, FetchInv
    <2> QED
      BY <2>1, <2>2 DEF FetchInv
  <1>6. CASE StartAgain
    BY <1>6, OtherStages DEF StartAgain, Restart, fetchVars, FetchInv
  <1>7. CASE UNCHANGED allVars
    <2>1. UNCHANGED <<version, files, noFail, stage, since, pc, event>>
      BY <1>7 DEF allVars, fetchVars, vars, localVars
    <2> QED
      BY <2>1 DEF FetchInv, StoredMud
  <1> QED
    BY <1>1, <1>2, <1>3, <1>4, <1>5, <1>6, <1>7, PublishFetch, OpenMudFetch, GetMudFetch,
       SigFetch, VerifyFetch DEF FetchNext

(* Without the -i option, the file that is parsed is a version of the file  *)
(* of the event's own URL, one published since the event was taken up,     *)
(* whatever sites share its name, and however downloads, new versions,     *)
(* kills and reboots interleave.                                           *)
THEOREM ParsedIsGenuineCorrect == FetchSpec => []ParsedIsGenuine
  <1>1. FetchInv => ParsedIsGenuine
    BY DEF FetchInv, ParsedIsGenuine, Genuine, StoredMud
  <1> QED
    BY <1>1, InitFetch, NextFetch, PTL DEF FetchSpec

-----------------------------------------------------------------------------
(* Types.  Those of MudManager hold whether or not a retrieval may fail     *)
(* there, for giving up leaves its data alone.                             *)

Stored == Content("mud") \cup Content("sig") \cup {ErrorPage, NoContent}

FilesOK == \A l \in Locations : files[l] \in Stored

VersionsOK == \A u \in Url : version[u] \in DOMAIN Published[u]

FetchTypeInv ==
    /\ FetchInv
    /\ TypeInv
    /\ VersionsOK
    /\ FilesOK
    /\ noFail \in BOOLEAN
    /\ stage \in {"openMud", "getMud", "openSig", "getSig", "verify"}
    /\ troubled \in BOOLEAN

LEMMA InitFetchType == FetchInit => FetchTypeInv
  <1> SUFFICES ASSUME FetchInit
               PROVE  FetchTypeInv
    OBVIOUS
  <1>1. FetchInv /\ TypeInv
    BY InitFetch, InitType DEF FetchInit
  <1>2. \A u \in Url : 1 \in DOMAIN Published[u]
    <2>1. \A u \in Url : Published[u] \in Seq(MudFiles) /\ Published[u] # <<>>
      BY FetchAssumption
    <2> QED
      BY <2>1, EmptySeq, LenProperties
  <1> QED
    BY <1>1, <1>2 DEF FetchInit, FetchTypeInv, VersionsOK, FilesOK, Stored

LEMMA ServedType ==
    ASSUME FetchInv, NEW p
    PROVE  Served(p) \in Stored
  <1>1. \A u \in Url : version[u] \in Nat \ {0}
    BY DEF FetchInv
  <1>2. ASSUME NEW u \in Url, NEW kind \in {"mud", "sig"}
        PROVE  [is |-> kind, url |-> u, version |-> version[u]] \in Stored
    BY <1>1 DEF Stored, Content
  <1>3. CASE \E u \in Url : p = Parts[u]
    <2> DEFINE owner == CHOOSE w \in Url : p = Parts[w]
    <2>1. owner \in Url
      BY <1>3
    <2>2. Served(p) = [is |-> "mud", url |-> owner, version |-> version[owner]]
      BY <1>3 DEF Served
    <2> HIDE DEF owner
    <2> QED
      BY <1>2, <2>1, <2>2
  <1>4. CASE /\ ~\E u \in Url : p = Parts[u]
             /\ \E u \in Url : Parts[u].ext # NoExt /\ p = CreateSigUrlFromMudUrl(u)
    <2> DEFINE owner == CHOOSE w \in Url :
                           Parts[w].ext # NoExt /\ p = CreateSigUrlFromMudUrl(w)
    <2>1. owner \in Url
      BY <1>4
    <2>2. Served(p) = [is |-> "sig", url |-> owner, version |-> version[owner]]
      BY <1>4 DEF Served
    <2> HIDE DEF owner
    <2> QED
      BY <1>2, <2>1, <2>2
  <1>5. CASE /\ ~\E u \in Url : p = Parts[u]
             /\ ~\E u \in Url : Parts[u].ext # NoExt /\ p = CreateSigUrlFromMudUrl(u)
    BY <1>5 DEF Served, Stored
  <1> QED
    BY <1>3, <1>4, <1>5

LEMMA WriteType ==
    ASSUME FetchInv, FilesOK, NEW l \in Locations, NEW c \in Stored, Write(l, c)
    PROVE  FilesOK'
  BY DEF FetchInv, FilesOK, Write, Locations, MudLocation, SigLocation

LEMMA NextFetchType == FetchTypeInv /\ [FetchNext]_allVars => FetchTypeInv'
  <1> SUFFICES ASSUME FetchTypeInv, [FetchNext]_allVars
               PROVE  FetchTypeInv'
    OBVIOUS
  <1> USE DEF FetchTypeInv
  <1>1. FetchInv'
    BY NextFetch
  <1>2. TypeInv'
    <2>1. CASE [Next]_vars
      BY <2>1, NextType
    <2>2. CASE pc = "retrieve" /\ GiveUp
      BY <2>2 DEF GiveUp, TypeInv, TypeOK, StageInv, UciTypeOK, Stage, uciVars,
                  localVars, fileVars
    <2> QED
      BY <2>1, <2>2, StepOrGiveUp
  <1>3. VersionsOK'
    <2>1. CASE version' = version
      BY <2>1 DEF VersionsOK
    <2>2. ASSUME NEW u \in Url, Publish(u)
          PROVE  VersionsOK'
      <3>1. Published[u] \in Seq(MudFiles)
        BY FetchAssumption
      <3>2. DOMAIN Published[u] = 1..Len(Published[u]) /\ Len(Published[u]) \in Nat
        BY <3>1, LenProperties
      <3>3. version[u] + 1 \in DOMAIN Published[u]
        BY <2>2, <3>2 DEF Publish, VersionsOK
      <3> QED
        BY <2>2, <3>3 DEF Publish, VersionsOK, FetchInv
    <2> QED
      BY <2>1, <2>2 DEF FetchNext, OpenMudFile, GetMudFile, OpenSigFile, GetSigFile,
         ValidateMudFileWithSig, ParseStoredFile, CrashOnStoredFile, HandleEvent,
         TakeEvent, Die, PowerCycle, StartAgain, fetchVars, allVars
  <1>4. FilesOK'
    <2>1. CASE files' = files
      BY <2>1 DEF FilesOK
    <2>2. pc = "retrieve" => /\ MudLocation(event.url) \in Locations
                             /\ SigLocation(event.url) \in Locations
      BY DEF FetchInv, Locations
    <2>3. CASE OpenMudFile \/ OpenSigFile
      <3>1. NoContent \in Stored
        BY DEF Stored
      <3> QED
        BY <2>2, <2>3, <3>1, WriteType DEF OpenMudFile, OpenSigFile, At
    <2>4. CASE GetMudFile \/ GetSigFile
      <3>1. ErrorPage \in Stored
        BY DEF Stored
      <3> QED
        BY <2>1, <2>2, <2>4, <3>1, WriteType, ServedType DEF GetMudFile, GetSigFile, At
    <2>5. CASE PowerCycle
      BY <2>5 DEF PowerCycle, FilesOK, Stored
    <2> QED
      BY <2>1, <2>3, <2>4, <2>5 DEF FetchNext, Publish, ValidateMudFileWithSig,
         ParseStoredFile, CrashOnStoredFile, HandleEvent, TakeEvent, Die, StartAgain,
         fetchVars, allVars
  <1>5. /\ noFail' \in BOOLEAN
        /\ stage' \in {"openMud", "getMud", "openSig", "getSig", "verify"}
        /\ troubled' \in BOOLEAN
    BY DEF FetchNext, Publish, OpenMudFile, GetMudFile, OpenSigFile, GetSigFile,
       ValidateMudFileWithSig, ParseStoredFile, CrashOnStoredFile, HandleEvent,
       TakeEvent, Die, PowerCycle, StartAgain, GoOn, GiveUp, fetchVars, allVars
  <1> QED
    BY <1>1, <1>2, <1>3, <1>4, <1>5

(* The types of MudFetch: a stored file is a version of one, its signature, *)
(* an error page or nothing; a version is one that was published; and only *)
(* a retrieval is ever in the middle of a download, however it is killed.  *)
THEOREM FetchTypeCorrect == FetchSpec => []FetchTypeOK
  <1>1. FetchTypeInv => FetchTypeOK
    BY DEF FetchTypeInv, FetchInv, TypeInv, VersionsOK, FilesOK, Stored, FetchTypeOK
  <1> QED
    BY <1>1, InitFetchType, NextFetchType, PTL DEF FetchSpec

-----------------------------------------------------------------------------
(* Causes. *)

(* Two files of a site do not differ in their extension only: the server    *)
(* could keep the signature of one of them, under the name of both.        *)
SignaturesDiffer ==
    \A u, w \in Url :
        /\ Parts[u].ext # NoExt /\ Parts[w].ext # NoExt
        /\ CreateSigUrlFromMudUrl(u) = CreateSigUrlFromMudUrl(w)
        => u = w

(* The server answers the URL of a signature with that of the file's        *)
(* present version.                                                        *)
LEMMA ServedSig ==
    ASSUME SignaturesDiffer, NEW u \in Url, Parts[u].ext # NoExt
    PROVE  Served(CreateSigUrlFromMudUrl(u))
             = [is |-> "sig", url |-> u, version |-> version[u]]
  <1> DEFINE p == CreateSigUrlFromMudUrl(u)
             owner == CHOOSE w \in Url :
                         Parts[w].ext # NoExt /\ p = CreateSigUrlFromMudUrl(w)
  <1>1. p.ext = P7s
    BY FetchAssumption DEF CreateSigUrlFromMudUrl, ReplaceExtension
  <1>2. ~\E w \in Url : p = Parts[w]
    BY <1>1, FetchAssumption
  <1>3. owner \in Url /\ Parts[owner].ext # NoExt /\ p = CreateSigUrlFromMudUrl(owner)
    OBVIOUS
  <1>4. owner = u
    BY <1>3 DEF SignaturesDiffer
  <1>5. \E w \in Url : Parts[w].ext # NoExt /\ p = CreateSigUrlFromMudUrl(w)
    OBVIOUS
  <1>6. Served(p) = [is |-> "sig", url |-> owner, version |-> version[owner]]
    BY <1>2, <1>5 DEF Served
  <1> QED
    BY <1>4, <1>6

StoredSig == files[SigLocation(event.url)]

Current(kind) == [is |-> kind, url |-> event.url, version |-> since]

(* Nothing has gone wrong in this retrieval so far. *)
Untroubled ==
    /\ ~troubled
    /\ version[event.url] = since
    /\ Parts[event.url].ext # NoExt

(* Then what has been downloaded is what the server had when it began.      *)
CauseInv ==
    /\ FetchTypeInv
    /\ stage \in {"openSig", "getSig", "verify"} /\ Untroubled =>
          StoredMud = Current("mud")
    /\ stage = "verify" /\ Untroubled => StoredSig = Current("sig")

LEMMA InitCause == FetchInit => CauseInv
  BY InitFetchType DEF FetchInit, CauseInv

LEMMA NextCause ==
    ASSUME SignaturesDiffer, CauseInv, [FetchNext]_allVars
    PROVE  CauseInv'
  <1>1. FetchTypeInv'
    BY NextFetchType DEF CauseInv
  <1>2. CASE stage' \in {"openMud", "getMud"}
    BY <1>1, <1>2 DEF CauseInv
  <1>3. ASSUME UNCHANGED <<version, files, stage, since, troubled, event>>
        PROVE  CauseInv'
    <2>1. /\ Untroubled' = Untroubled /\ StoredMud' = StoredMud /\ StoredSig' = StoredSig
          /\ Current("mud")' = Current("mud") /\ Current("sig")' = Current("sig")
      BY <1>3 DEF Untroubled, StoredMud, StoredSig, Current
    <2> QED
      BY <1>1, <1>3, <2>1 DEF CauseInv
  <1>4. ASSUME NEW u \in Url, Publish(u), stage \notin {"openMud", "getMud"}
        PROVE  CauseInv'
    <2>1. UNCHANGED <<files, stage, since, troubled, event>>
      BY <1>4 DEF Publish, vars, localVars
    <2>2. /\ event.url \in Url /\ since \in Nat /\ version[event.url] \in Nat
          /\ since <= version[event.url]
      BY <1>4 DEF CauseInv, FetchTypeInv, FetchInv
    <2>3. version'[event.url] \in Nat /\ version[event.url] <= version'[event.url]
      BY <1>4, <2>2 DEF Publish, CauseInv, FetchTypeInv, FetchInv
    <2>4. Untroubled' => Untroubled
      BY <2>1, <2>2, <2>3 DEF Untroubled
    <2>5. /\ StoredMud' = StoredMud /\ StoredSig' = StoredSig
          /\ Current("mud")' = Current("mud") /\ Current("sig")' = Current("sig")
      BY <2>1 DEF StoredMud, StoredSig, Current
    <2> QED
      BY <1>1, <2>1, <2>4, <2>5 DEF CauseInv
  <1>5. CASE GetMudFile
    <2>1. CASE GiveUp
      BY <1>2, <2>1 DEF GiveUp
    <2>2. CASE troubled' = TRUE /\ stage' = "openSig"
      BY <1>1, <2>2 DEF CauseInv, Untroubled
    <2>3. CASE Write(MudLocation(event.url), Served(Parts[event.url])) /\ GoOn("openSig")
      <3>1. /\ event.url \in Url /\ DOMAIN files = Locations
            /\ UNCHANGED <<version, since, event>> /\ stage' = "openSig"
        BY <1>5, <2>3 DEF GetMudFile, At, GoOn, vars, localVars, CauseInv, FetchTypeInv, FetchInv
      <3>2. MudLocation(event.url) \in Locations
        BY <3>1 DEF Locations
      <3>3. StoredMud' = Served(Parts[event.url])
        BY <2>3, <3>1, <3>2 DEF StoredMud, Write
      <3>4. Untroubled' => StoredMud' = Current("mud")'
        BY <3>1, <3>3, ServedMud DEF Untroubled, Current
      <3> QED
        BY <1>1, <3>1, <3>4 DEF CauseInv
    <2> QED
      BY <1>5, <2>1, <2>2, <2>3 DEF GetMudFile, GoOn
  <1>6. CASE OpenSigFile \/ GetSigFile
    <2>1. /\ event.url \in Url /\ DOMAIN files = Locations /\ UNCHANGED <<version, since>>
          /\ stage \in {"openSig", "getSig"}
      BY <1>6 DEF OpenSigFile, GetSigFile, At, CauseInv, FetchTypeInv, FetchInv
    <2>2. /\ MudLocation(event.url) \in Locations /\ SigLocation(event.url) \in Locations
          /\ MudLocation(event.url) # SigLocation(event.url)
      BY <2>1, LocationsDiffer DEF Locations
    <2>3. CASE GiveUp
      BY <1>2, <2>3 DEF GiveUp
    <2>4. CASE troubled' = TRUE /\ stage' = "verify"
      BY <1>1, <2>4 DEF CauseInv, Untroubled
    <2>5. ASSUME NEW c, Write(SigLocation(event.url), c), UNCHANGED <<event, troubled>>
          PROVE  /\ Untroubled' = Untroubled /\ StoredMud' = StoredMud /\ StoredSig' = c
                 /\ Current("mud")' = Current("mud") /\ Current("sig")' = Current("sig")
      BY <2>1, <2>2, <2>5 DEF Untroubled, StoredMud, StoredSig, Current, Write
    <2>6. CASE OpenSigFile
      <3>1. /\ Write(SigLocation(event.url), NoContent) /\ UNCHANGED <<event, troubled>>
            /\ stage = "openSig" /\ stage' = "getSig"
        BY <2>6 DEF OpenSigFile, At, GoOn, vars, localVars
      <3> QED
        BY <1>1, <2>5, <3>1 DEF CauseInv
    <2>7. CASE /\ GetSigFile /\ GoOn("verify") /\ UNCHANGED troubled
               /\ Write(SigLocation(event.url), Served(CreateSigUrlFromMudUrl(event.url)))
      <3>1. UNCHANGED <<event, troubled>> /\ stage = "getSig" /\ stage' = "verify"
        BY <2>7 DEF GetSigFile, At, GoOn, vars, localVars
      <3>2. Untroubled => Served(CreateSigUrlFromMudUrl(event.url)) = Current("sig")
        BY <2>1, ServedSig DEF Untroubled, Current
      <3> QED
        BY <1>1, <2>5, <2>7, <3>1, <3>2 DEF CauseInv
    <2> QED
      BY <1>6, <2>3, <2>4, <2>6, <2>7 DEF GetSigFile, GoOn
  <1>7. CASE UNCHANGED allVars
    BY <1>3, <1>7 DEF allVars, vars, localVars, fetchVars
  <1>8. CASE OpenMudFile \/ ValidateMudFileWithSig \/ Die \/ PowerCycle
    BY <1>2, <1>8 DEF OpenMudFile, ValidateMudFileWithSig, Die, PowerCycle, GoOn, GiveUp
  <1>9. CASE ParseStoredFile \/ CrashOnStoredFile \/ HandleEvent \/ TakeEvent \/ StartAgain
    <2>1. pc # "retrieve" /\ stage' = stage
      BY <1>9 DEF ParseStoredFile, CrashOnStoredFile, HandleEvent, TakeEvent, StartAgain,
                  fetchVars, Restart, Dispatch,
                  Handle, RecordMudDevice, RecordLegacyDevice,
                  RecordMudDeviceAgain, ClearEvent, ParseMudFile,
                  StartRemove, FailRemove, RemoveRule, EndRemove,
                  RemoveMudDbDeviceEntry, FinishTransaction,
                  SkipMissingAcl, EnterAcl, LeaveAcl, SkipAce, ResolveAce,
                  LeaveAce, InstallAnswer, InstallRejectAll
    <2>2. stage = "openMud"
      BY <2>1 DEF CauseInv, FetchTypeInv, FetchInv
    <2> QED
      BY <1>2, <2>1, <2>2
  <1>10. CASE \E u \in Url : Publish(u)
    <2>1. stage' = stage
      BY <1>10 DEF Publish
    <2>2. stage \in {"openMud", "getMud", "openSig", "getSig", "verify"}
      BY DEF CauseInv, FetchTypeInv
    <2> QED
      BY <1>2, <1>4, <1>10, <2>1, <2>2
  <1> QED
    BY <1>5, <1>6, <1>7, <1>8, <1>9, <1>10 DEF FetchNext

(* A MUD file and a signature of one version match. *)
LEMMA CurrentIsValid ==
    ASSUME event.url \in Url, since \in Nat \ {0}
    PROVE  ValidSignature(Current("sig"), Current("mud"))
  BY DEF Current, ValidSignature, Content

LEMMA CauseStep ==
    ASSUME CauseInv, [FetchNext]_allVars, pc = "retrieve", pc' = "clear"
    PROVE  \/ troubled'
           \/ since # version[event.url]
           \/ Parts[event.url].ext = NoExt
  <1>1. CASE GetMudFile \/ GetSigFile
    BY <1>1 DEF GetMudFile, GetSigFile, GoOn, vars
  <1>2. CASE ValidateMudFileWithSig
    <2>1. stage = "verify" /\ ~ValidSignature(StoredSig, StoredMud) /\ troubled' = troubled
      BY <1>2 DEF ValidateMudFileWithSig, At, StoredSig, StoredMud
    <2>2. ASSUME Untroubled
          PROVE  FALSE
      <3>1. StoredSig = Current("sig") /\ StoredMud = Current("mud")
        BY <2>1, <2>2 DEF CauseInv
      <3>2. event.url \in Url /\ since \in Nat \ {0}
        BY <2>2 DEF Untroubled, CauseInv, FetchTypeInv, FetchInv
      <3> QED
        BY <2>1, <3>1, <3>2, CurrentIsValid
    <2> QED
      BY <2>1, <2>2 DEF Untroubled
  <1>3. CASE OpenMudFile \/ OpenSigFile \/ (\E u \in Url : Publish(u)) \/ UNCHANGED allVars
    BY <1>3 DEF OpenMudFile, OpenSigFile, Publish, GoOn, vars, allVars
  <1>4. ~HandleEvent
    BY DEF HandleEvent, Handle, RecordMudDevice, RecordLegacyDevice,
           RecordMudDeviceAgain, ClearEvent, ParseMudFile,
           StartRemove, FailRemove, RemoveRule, EndRemove,
           RemoveMudDbDeviceEntry, FinishTransaction,
           SkipMissingAcl, EnterAcl, LeaveAcl, SkipAce, ResolveAce,
           LeaveAce, InstallAnswer, InstallRejectAll
  <1>5. ~(ParseStoredFile \/ CrashOnStoredFile \/ TakeEvent \/ Die \/ PowerCycle \/ StartAgain)
    BY DEF ParseStoredFile, CrashOnStoredFile, TakeEvent, Dispatch, Die, Kill, Stop,
           PowerCycle, Reboot, StartAgain, Restart
  <1> QED
    BY <1>1, <1>2, <1>3, <1>4, <1>5 DEF FetchNext

(* A device is left without its file only for a cause: if all downloads     *)
(* worked, no version was published meanwhile and the URL has an extension, *)
(* the signature found is that of the file found, through any number of     *)
(* earlier retrievals, of other sites' files under the same name as well.  *)
THEOREM UnservedHasCauseCorrect ==
    ASSUME SignaturesDiffer
    PROVE  FetchSpec => UnservedHasCause
  <1>1. SignaturesDiffer => (CauseInv /\ [FetchNext]_allVars => CauseInv')
    BY NextCause
  <1>2. CauseInv /\ [FetchNext]_allVars =>
           [pc = "retrieve" /\ pc' = "clear" =>
               \/ troubled'
               \/ since # version[event.url]
               \/ Parts[event.url].ext = NoExt]_allVars
    BY CauseStep
  <1> QED
    BY <1>1, <1>2, InitCause, PTL DEF FetchSpec, UnservedHasCause
===============================================================================
