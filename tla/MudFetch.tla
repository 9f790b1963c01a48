-------------------------------- MODULE MudFetch --------------------------------
(***************************************************************************)
(* MudManager with the stage "retrieve" taken apart, and the files it      *)
(* leaves behind: a MUD file and its signature are downloaded one after    *)
(* the other into files named after the last part of their URLs, the       *)
(* signature is checked, and what is then parsed is read from the file.    *)
(* A manufacturer may publish a new version at any time.  The -i option is  *)
(* a variable here, in place of the constant, so that one run has both.    *)
(*                                                                         *)
(* The server and openssl are modelled from how they are called.           *)
(***************************************************************************)
EXTENDS MudManager

CONSTANTS
    NoExt,      \* the last part of the URL has no dot
    P7s,        \* MUD_FILE_SIGNATURE_EXTENSION
    Parts,      \* Parts[u]: the site, name and extension of a MUD URL
    Stem,       \* Stem[s]: the site and name before the last dot of a site
    Published,  \* Published[u]: the versions of the MUD file of a URL
    ErrorPage,  \* an HTTP error page
    NoContent   \* no file, an empty one, or a part of one

VARIABLES
    version,   \* the manufacturer: the version each URL has now
    files,     \* mudFileDataDirectory, in tmpfs: what each file holds
    noFail,    \* noFailOnMudValidation of the process: the -i option, or not
    stage,     \* where executeNewDhcpAction is in the stage "retrieve"
    since,     \* history: the version when the download began
    troubled   \* history: a download of this event was cut off or answered in error

fetchVars == <<version, files, noFail, stage, since, troubled>>

allVars == <<vars, fetchVars>>

(* replaceExtension cuts at the last dot, wherever in the URL it is. *)
ReplaceExtension(p, ext) ==
    IF p.ext # NoExt THEN [p EXCEPT !.ext = ext]
    ELSE [site |-> Stem[p.site].site, name |-> Stem[p.site].name, ext |-> ext]

CreateSigUrlFromMudUrl(u) == ReplaceExtension(Parts[u], P7s)

(* Mutant: a file is named without its extension. *)
CreateStorageLocationNoExt(p) == <<p.name, NoExt>>

(* The base name of the URL: files of different sites may share one. *)
CreateStorageLocation(p) == <<p.name, p.ext>>

MudLocation(u) == CreateStorageLocation(Parts[u])

SigLocation(u) == CreateStorageLocation(CreateSigUrlFromMudUrl(u))

Content(kind) == [is : {kind}, url : Url, version : Nat \ {0}]

ASSUME FetchAssumption ==
    /\ Published \in [Url -> Seq(MudFiles) \ {<<>>}]
    /\ Parts \in [Url -> [site : DOMAIN Stem, name : STRING, ext : STRING \cup {NoExt}]]
    /\ \A u, w \in Url : Parts[u] = Parts[w] => u = w
    /\ \A u \in Url : Parts[u].ext # P7s
    /\ {ErrorPage, NoContent} \cap (Content("mud") \cup Content("sig")) = {}

Locations == {MudLocation(u) : u \in Url} \cup {SigLocation(u) : u \in Url}

FetchTypeOK ==
    /\ TypeOK
    /\ \A u \in Url : version[u] \in DOMAIN Published[u]
    /\ DOMAIN files = Locations
    /\ \A l \in Locations :
          files[l] \in Content("mud") \cup Content("sig") \cup {ErrorPage, NoContent}
    /\ noFail \in BOOLEAN
    /\ stage \in {"openMud", "getMud", "openSig", "getSig", "verify"}
    /\ stage # "openMud" => pc = "retrieve"
    /\ since \in Nat
    /\ troubled \in BOOLEAN

FetchInit ==
    /\ Init
    /\ version = [u \in Url |-> 1]
    /\ files = [l \in Locations |-> NoContent]
    /\ noFail \in BOOLEAN
    /\ stage = "openMud"
    /\ since = 1
    /\ troubled = FALSE

-----------------------------------------------------------------------------
(* The server.  A manufacturer keeps the signature of a file under the      *)
(* file's own name, so one without an extension has none for osMUD to find. *)

Served(p) ==
    IF \E u \in Url : p = Parts[u]
    THEN LET owner == CHOOSE w \in Url : p = Parts[w]
         IN  [is |-> "mud", url |-> owner, version |-> version[owner]]
    ELSE IF \E u \in Url : Parts[u].ext # NoExt /\ p = CreateSigUrlFromMudUrl(u)
    THEN LET owner == CHOOSE w \in Url :
                         Parts[w].ext # NoExt /\ p = CreateSigUrlFromMudUrl(w)
         IN  [is |-> "sig", url |-> owner, version |-> version[owner]]
    ELSE ErrorPage

Publish(u) ==
    /\ version[u] < Len(Published[u])
    /\ version' = [version EXCEPT ![u] = @ + 1]
    /\ UNCHANGED <<vars, files, noFail, stage, since, troubled>>

-----------------------------------------------------------------------------
(* executeNewDhcpAction and getOpenMudFile *)

At(s) == pc = "retrieve" /\ stage = s

Write(location, content) == files' = [files EXCEPT ![location] = content]

GoOn(s) == stage' = s /\ UNCHANGED vars

(* Mutant: the device is recorded though there is no file for it. *)
GiveUpRecorded ==
    /\ InstallMudDbDeviceEntry(event.url)
    /\ pc' = "clear"
    /\ stage' = "openMud"
    /\ UNCHANGED <<uciVars, localVars, whitelist>>

GiveUp ==
    /\ pc' = "clear"
    /\ stage' = "openMud"
    /\ UNCHANGED <<uciVars, localVars, fileVars>>

(* fopen(outputFile, "w"): what was there is gone before anything arrives. *)
OpenMudFile ==
    /\ At("openMud")
    /\ Write(MudLocation(event.url), NoContent)
    /\ since' = version[event.url]
    /\ troubled' = FALSE
    /\ GoOn("getMud")
    /\ UNCHANGED <<version, noFail>>

(* curl_easy_perform reports what cuts a transfer off, but not HTTP errors. *)
GetMudFile ==
    /\ At("getMud")
    /\ \/ /\ Write(MudLocation(event.url), Served(Parts[event.url]))
          /\ GoOn("openSig")
          /\ UNCHANGED troubled
       \/ /\ "fetch" \in Faults
          /\ Write(MudLocation(event.url), ErrorPage)
          /\ GoOn("openSig")
          /\ troubled' = TRUE
       \/ /\ "fetch" \in Faults
          /\ GiveUp
          /\ troubled' = TRUE
          /\ UNCHANGED files
    /\ UNCHANGED <<version, noFail, since>>

OpenSigFile ==
    /\ At("openSig")
    /\ Write(SigLocation(event.url), NoContent)
    /\ GoOn("getSig")
    /\ UNCHANGED <<version, noFail, since, troubled>>

GetSigFile ==
    /\ At("getSig")
    /\ \/ /\ Write(SigLocation(event.url), Served(CreateSigUrlFromMudUrl(event.url)))
          /\ GoOn("verify")
          /\ UNCHANGED troubled
       \/ /\ "fetch" \in Faults
          /\ Write(SigLocation(event.url), ErrorPage)
          /\ GoOn("verify")
          /\ troubled' = TRUE
       \/ /\ "fetch" \in Faults
          /\ IF noFail THEN GoOn("verify") ELSE GiveUp
          /\ troubled' = TRUE
          /\ UNCHANGED files
    /\ UNCHANGED <<version, noFail, since>>

(* Mutant: a signature is one, whatever it signs. *)
AnySignature(sig, mud) == sig \in Content("sig")

(* openssl cms -verify *)
ValidSignature(sig, mud) ==
    /\ sig \in Content("sig")
    /\ mud \in Content("mud")
    /\ sig.url = mud.url
    /\ sig.version = mud.version

ValidateMudFileWithSig ==
    /\ At("verify")
    /\ IF \/ ValidSignature(files[SigLocation(event.url)], files[MudLocation(event.url)])
          \/ noFail
       THEN /\ pc' = "record"
            /\ stage' = "openMud"
            /\ UNCHANGED <<uciVars, localVars, fileVars>>
       ELSE GiveUp
    /\ UNCHANGED <<version, files, noFail, since, troubled>>

-----------------------------------------------------------------------------
(* The other stages, as in MudManager; parseMudFile reads the stored file.  *)

ParseStoredFile ==
    /\ pc = "parse"
    /\ LET c == files[MudLocation(event.url)]
       IN  c \in Content("mud") /\ mudFile' = Published[c.url][c.version]
    /\ ParseMudFile
    /\ UNCHANGED fetchVars

CrashOnStoredFile ==
    /\ pc = "parse"
    /\ files[MudLocation(event.url)] \notin Content("mud")
    /\ CrashOnJson
    /\ UNCHANGED fetchVars

HandleEvent ==
    /\ pc # "parse"
    /\ Handle
    /\ UNCHANGED fetchVars

TakeEvent == \E e \in Events : Dispatch(e) /\ UNCHANGED fetchVars

(* Mutant: the new process goes on where the old one was. *)
DieMidway == Kill /\ UNCHANGED fetchVars

Die ==
    /\ Kill
    /\ stage' = "openMud"
    /\ UNCHANGED <<version, files, noFail, since, troubled>>

PowerCycle ==
    /\ Reboot
    /\ stage' = "openMud"
    /\ files' = [l \in Locations |-> NoContent]
    /\ UNCHANGED <<version, noFail, since, troubled>>

StartAgain == Restart /\ UNCHANGED fetchVars

FetchNext ==
    \/ \E u \in Url : Publish(u)
    \/ OpenMudFile \/ GetMudFile \/ OpenSigFile \/ GetSigFile \/ ValidateMudFileWithSig
    \/ ParseStoredFile \/ CrashOnStoredFile
    \/ HandleEvent \/ TakeEvent \/ Die \/ PowerCycle \/ StartAgain

FetchSpec == FetchInit /\ [][FetchNext]_allVars

-----------------------------------------------------------------------------

(* What MudManager says of the stage "retrieve" is all it needs to know of  *)
(* the downloads: with its files, this module still implements that one,   *)
(* and has its safety properties.                                          *)
ImplementsMudManager == Spec

(* The file that is read to be parsed, some steps after its signature was   *)
(* checked, is a version of the file of the very URL in the event, and one *)
(* that was current after the event was taken up: never a file of another  *)
(* site that is stored under the same name, a part, or an error page.      *)
ParsedIsGenuine ==
    pc \in {"record", "parse"} /\ ~noFail =>
        LET c == files[MudLocation(event.url)]
        IN  /\ c \in Content("mud")
            /\ c.url = event.url
            /\ c.version \in since..version[event.url]

(* A device is left without its file only for a cause: a download that did  *)
(* not work, a version published between the two downloads, or a URL whose *)
(* last part has no extension to put that of the signature in its place.   *)
UnservedHasCause ==
    [][pc = "retrieve" /\ pc' = "clear" =>
          \/ troubled'
          \/ since # version[event.url]
          \/ Parts[event.url].ext = NoExt]_allVars
===============================================================================
