# osMUD in TLA+

osMUD is a MUD manager for OpenWrt routers. dnsmasq calls a script for every
change of a DHCP lease; the script appends a line to an event log; the daemon
reads the log, downloads the MUD file a device announces, and turns it into
firewall rules, a DNS white list and a database of devices. The modules in this
directory model that path from the lease to the enforced rules, the runs check
it with TLC on small instances, and the proof modules prove the core of it with
TLAPS for all values of the constants. Paths below are those of the repository
(`src/` there is the directory of the C code).

## 1. The system

| part | state | operations | modelled in |
|---|---|---|---|
| `src/osmud.c` event loop | offset of the open log, line buffer | `readLine`, `pollDhcpFile`, `doProcessLoop` | `EventFile`, `Osmud` |
| `src/dhcp_event.c` | the `DhcpEvent` in hand | `processDhcpEventFromLog`, `clearDhcpEventRecord`, storage locations, signature check | `DhcpEvent`, `MudFetch` |
| `src/mud_manager.c` | locals of one handler | NEW, OLD, DEL, loops over access lists, ACEs and addresses, commit or rollback | `MudManager` |
| `src/comms.c` | the downloaded files | `getOpenMudFile` | `MudFetch` |
| `src/mudparser.c` | `MudFileInfo` and the state of the walk | `parseMudFile`, `processJson`, `process_string`, `incrementState`, `getMudFileAcl` | `MudParser`, `MudDocument`, `MudFile` |
| `src/oms_utils.c` | none | `replaceExtension`, `readFileToString` | `MudFetch` (these two) |
| `src/openwrt/openwrt.c` | none; runs scripts with `system()` | install, remove, commit, roll back, record, white-list, verify | `MudManager`, `UciFirewall` |
| `src/openwrt/*_ip_fw_rule*.sh` | UCI's staged and committed `firewall` | add a rule, delete a device's rules, commit, revert | `FirewallConfig`, `UciFirewall`, `RemoveIpFwRule` |
| `src/openwrt/*_mud_db_entry.sh` | `mudStateFile.txt` | append (remove is never run) | `MudManager` |
| `src/dnsmasq/detect_new_device.sh` | the event log | one line per call | `DhcpEvent`, `Osmud`, `EventFile` |
| `src/openwrt/osmud.init` | directories in tmpfs | start, stop, boot | `MudManager`, `Osmud`, `MudFetch` |
| `osmud-dnsmasq/isMudBlocking.sh` | reads a white list | decides one lookup | not modelled (section 5) |

Everything osMUD does happens in one thread, one event at a time. What makes it
hard is what it leaves outside of the process: UCI's staged changes, the
downloaded files, the database, the white list and the firewall outlive a crash
in the middle of a handler; the script that appends to the log runs while osmud
reads it; manufacturers publish while osmud downloads; the removal script deletes
sections by numbers that its own deletes change; the parser keeps its place in
counters that the order of a JSON object decides on; and of most calls the result
is ignored. The hazards in `PROJECT.json` list these places by line.

What makes each part correct:

- *removal script*: it deletes the rules of one address, all of them and no other;
- *MUD manager*: a device's rules are enforced all or not at all, end with the
  rule that rejects everything else, and belong to a recorded device and to
  white-listed names; a transaction leaves nothing behind; a device that can be
  served is; every event comes to its end;
- *retrieval*: what is parsed is the file of the event's URL, as its manufacturer
  signed it;
- *parser*: the structure handed over is what the document says, whatever its
  style, and nothing is stored outside of the arrays;
- *event loop*: one event per line, each once, in order; after a restart, what is
  enforced is again what the leases call for;
- *log line*: the event handled says what dnsmasq reported.

## 2. The modules

```
FirewallConfig  rules, sections, the removal pipeline          (operators)
  UciFirewall     staged / committed / lines, one action per script
    RemoveIpFwRule  one run of the removal script
  MudFile         parsed MUD files and the rules they stand for (operators)
    DevicePolicy    ABSTRACT: what is enforced for each device
    MudDocument     such a file as JSON, and what the JSON says   (operators)
      MudParser       the walk that makes the file out of it
  DhcpEvent       the log line and the event read from it       (operators)
    MudManager      the handler: UciFirewall + MudFile + DhcpEvent
      MudFetch        the downloads + MudManager, which it implements
      Osmud           dnsmasq + the log + MudManager
EventFile       readLine / pollDhcpFile, one read(2) at a time
MC*             the instances for TLC
*Proofs         the theorems, each module extending the one it is about:
  FirewallProofs        lemmas on configurations; induction and FlattenSeq
    RemoveIpFwRuleProofs
    MudManagerProofs      types, service, transactions, record, white list
      MudPolicyProofs       MudManager implements DevicePolicy
        OsmudProofs           the whole loop
      MudFetchProofs        MudFetch implements MudManager
    MudParserProofs       MudFileInfo is what the document says
  EventFileProofs       the reader of the log
```

**FirewallConfig, UciFirewall.** A configuration is a sequence of rule sections.
`uci add/set/delete` change `staged` only; `CommitRules` and `RollbackRules` are
the two scripts that end a transaction. The firewall enforces what is committed:
both scripts restart it. `MatchingLines` is the pipeline `uci show | awk`, with
the matched addresses given by `Pattern`, so that prefixes can be chosen to
match; `SortsBefore` is the textual order of `sort -r`. Lines that carry the same
number may be deleted in any order. `OverwriteLast` is what `create_ip_fw_rule.sh`
does when its `uci add` fails: it goes on with the last section there is.

**MudFile.** A file is its access lists and ACLs. Of an ACE it is kept what steers the
handler: whether it is a DNS entry and for which domain, its action, and whether it
has a name and both ports (`Installable`): `installFirewallIPRule` prints both
into a command, and one that is missing is a syntax error to the shell.

**MudManager.** `pc` is the place in the handler: `Dispatch` is
`executeOpenMudDhcpAction`; `retrieve` covers the downloads and the signature;
`record`, `parse`, `remove`/`removing`, `accessList`, `ace`, `install`, `finish`
are the stages of `executeMudWithDhcpContext` in its order; `rerecord` is the
second database entry of `executeNewDhcpAction`; `forget` is
`removeMudDbDeviceEntry` of a DEL event; `clear` is `clearDhcpEventRecord`. Each
call that changes state outside of the process is one step, so the process can
die, or the power fail, between any two. The variables `accessLists`, `aces` and
`answers` are what the three nested loops have still to do. `Faults` says which
parts of the environment may fail in a run.

**MudFetch** takes the stage `retrieve` apart. A URL has a site, a name and an
extension; `CreateStorageLocation` names a local file after the last part of the
URL, so two sites may share one; `ReplaceExtension` makes the signature's URL and,
for a URL without an extension, cuts at a dot of the host name. Opening a file
truncates it, filling it is a step of its own, and `Publish` may come between any
two. `Served` is the server: an HTTP error is a page like any other. A content
is the URL and the version it was published as; a signature signs one of them.
`noFail` is the `-i` option. The other stages are those of `MudManager`, except
that the file to parse is the stored one, and what is no MUD file crashes the
parser. Server and openssl are outside of the repository and modelled from how
they are called.

**MudDocument, MudParser.** A document is the sequence of tokens met on the
depth-first walk of `processJson`; `Says` is what it says, told by the places of its
tokens and without a walk: which section (an object with a key that `processJson`
tests for) a token is closest in, which entries of a list it is part of. `stack` holds the state of each open object or array, which a
known key sets and everything else inherits; `mfi` is `MudFileInfo` with each
array as long as its counter says. A store that is not inside its array is
undefined behaviour: the walk goes "astray" there and is not followed. An element
of an array that is no object crashes the process.

**DhcpEvent, Osmud.** `LogLine` is what `detect_new_device.sh` writes,
`Tokens` what `strtok` makes of it (an empty field is no token), and
`ProcessDhcpEventFromLog` the event made of the tokens. `ReadEvent` binds line and
tokens to names only so that they are computed once.
In `Osmud` the log is a sequence of calls of that script and `offset` the
position of the reader; a new process starts at 0, and a reboot empties leases
and log. `kept` remembers the rules a reboot left enforced, for
`CaughtUpIsEnforced`.

**EventFile.** The same log one character at a time, for the questions of where a
line ends. A character is the pair of its line and place, lines one after the other, so that
`Before` is the order in which they were written. `buffer` is all that a call of
`readLine` has stored, with `NUL` for the zero that ends a text or stands for nothing
read. The zero behind a newline is stored without a test for room, so `buffer` may be
one longer than the array (`MaxLine`): the store past `dhcpEventLine` is a state of the
model, and since what it hits is a neighbour on the stack that is none of the
variables, the reader goes on from there. The module stands apart from
`Osmud`: for lines that appear at once and fit the buffer (`WellWritten`) it
delivers what `ReadEvent` of `Osmud` takes for granted.

**DevicePolicy** is the promise: for each device no rules, or exactly the rules of
one complete file in the order of the file with REJECT-ALL last; it changes in
one step, for one device at a time. `MudManager!PolicySpec` is that
specification with `policy` read off the committed configuration. The chain is
`MudFetch`, and `Osmud`, implement `MudManager`, which implements `DevicePolicy`.

## 3. The runs

| run | question | bounds and faults |
|---|---|---|
| `rm_script` | does the removal script delete what it should? | all configurations of up to 4 sections from 5 rules, and 4 shapes of 10 sections; exact match |
| `mm_serve` | does the manager implement `DevicePolicy`, is what is enforced recorded and white-listed, does every event end with its effect? | 2 devices, 5 files (3 unenforceable: an ACL that is not there, an entry without ports, one without a name), 8 events, varying answers; downloads and parsing fail |
| `mm_closed` | all or nothing, nothing left staged | one two-way file, varying answers; downloading, parsing, appending, creating and removing fail, reboots |
| `mm_faults` | does REJECT-ALL stay last? | kills anywhere, lost commits, failing installations, `uci add` that fails, unresolved names, reboots |
| `fetch_files` | is what is parsed the genuine file of the event's URL, and is `MudManager` implemented? | 3 URLs: two sharing a local file, one without extension; two versions of one; `-i` or not; failing downloads, kills, reboots |
| `parse_styles` | is what is parsed what is written? | 9 files, every combination of known keys, member orders and leaf-lists; arrays of 2 |
| `osmud_loop` | is the reported event handled, every line read, and the present lease enforced after kills and replays? | 3 clients on 2 addresses, 3 log lines, one enforceable file, crashes, kills and reboots (270,506 states) |
| `file_cut` | nothing twice, nothing out of order; a text that fits ends in the buffer; one event per well-written line, none missed | up to 4 lines of 0, 1, 2, 3, 4 or 6 characters, 11 characters in all, a buffer of 4, any tearing |

`MaxRules` bounds the configuration: ten sections are as many as the textual sort
handles, and more than two devices with the files used ever need, except after
failed removals, where `FailRoom` stops further ones. Two devices show every
interference of one device's transaction with another's rules; answers of one
and two addresses, and answers that differ between two lookups of one name, are
what the loops can tell apart; in `mm_serve` the answers of two names are
disjoint, so that an address tells which name let it in. In `osmud_loop` three
lines allow a lease, a release and a new lease of the same address, or these
around another device's line, before and after a reboot. In `file_cut` the
lengths stand for no text, one character (no event), two (an event), the longest
line that fits, one that fills the buffer and leaves no room for the zero, and one
that is longer than it; four lines let the reader fall behind and
catch up again. In `parse_styles` an array of two has a first entry, one that
follows another, and one that is full; five of the files are within the limits,
the others exceed one each. `MAX_DEVICE_POLICIES`, `MAX_ACLS` and `MAX_ACES` are
larger, but each entry is treated like the one before it. In `fetch_files` one device and
one MUD file per version are enough, since what differs is where a file comes
from.

**Fairness.** `FairSpec` of `MudManager` is weak fairness of the handler's own
steps: a single thread that runs goes on. The download is left out, as `comms.c`
sets no time limit; faults, restarts and events are never fair. `Osmud` adds the
loop that polls forever, `EventFile` fairness of the reader only, `MudParser` that
of the walk. `EveryLineIsRead` therefore assumes that downloads return, in its
statement, and `EveryLineIsAnEvent` that the lines are well written.

**Deadlock** is checked wherever the system runs forever; `CHECK_DEADLOCK FALSE`
stands only in the runs of one execution of the removal script and of one call of
the parser, which end.

### Where the code and its documents disagree

Four runs check one property each, taken from the documentation, that TLC finds
violated (`PROJECT.json`, `findings`):

- `rm_sort`: from the eleventh section on, the textual sort deletes the wrong
  sections, against `remove_ip_fw_rule.sh:20`;
- `mm_crash`: an unresolvable name crashes the process, and the next commit of any
  device makes the half-built transaction permanent, against `CHANGELOG.md:10`;
- `file_torn`: a half-written line becomes two events, against `osmud.c:327`;
- `parse_test`: the key `access-list-entries` of the repository's own
  `test/lightbulb2000.json:33` is not known to the parser, which counts its ACEs as
  ACLs and stores before the first element of an array, against `CHANGELOG.md:15`.

Others are visible in the definitions without a run: `MatchingLines` also matches
longer addresses (`Pattern`) and takes the numbers of port forwards for those of
rules (`Redirects`), so `KeepsOthers` needs an exact match; `FailRemove` goes on
and installs the rules a second time, against `CHANGELOG.md:9`; `ReadOverlong`
cuts a line longer than the buffer in two; `ReadNewline` stores the zero past the
array after a line that fills it (`osmud.c:69`), which is why the bound in `TypeOK` of
`EventFile` is `MaxLine + 1` and `TextEndsInBuffer` speaks of lines that fit;
`RemoveMudDbDeviceEntry` changes
nothing, since `openwrt.h:23` names the wrong script; `InstallFails` always
applies to a device without a host name (`openwrt.c:97`), though
`dnsmasq/README.md:36` says the name is there "IF Available", and to an ACE without a
name or a port, for which the whole file is rolled back; `CrashOnScalar` is
what happens on a leaf-list with a value; `UnservedHasCause` has to except URLs
whose last part has no extension; and after `InstallOverwrites` the rule that
closes another device may be gone.

Three things the models showed that no document speaks about. If a MUD file that
cannot be enforced was being applied when the process was killed, the rules of
the broken transaction stay: any other device's commit puts them into force, and
the event, read again from the log, is rolled back to them. `CaughtUpIsEnforced`
therefore asks that every file can be enforced; the attempt to prove it without
showed the case. And a reboot forgets leases, log and database but not the
committed rules, which stay in force until the log settles the address again
(`kept` in `CaughtUpIsEnforced`; `EnforcedIsRecorded` is checked and proved
without reboots). Last, if `uci add` fails while a REJECT-ALL is created, the section
that is overwritten may be one of the same device and keep its address as the
destination. It then names the address twice, the removal script prints its number
twice, and its second delete takes the section that has moved up, whoever it belongs to.

## 4. The proofs

| theorem | statement | assumptions |
|---|---|---|
| `RemoveIpFwRuleProofs!TypeCorrect` | types of the removal script | none |
| `RemainingLinesCorrect`, `RemovesAllCorrect`, `KeepsOthersCorrect` | the script deletes all rules of the device and no other | `ScriptIsExact`, `InitialRulesOK` |
| `MudManagerProofs!TypeCorrect` | types of the manager | none |
| `ServableIsServedCorrect` | for a named device, a file whose access lists have their ACLs, with a name and both ports on each DNS entry, is never rolled back | `CreateSucceeds` |
| `TransactionClosedCorrect` | nothing is staged outside a transaction | `TransactionsEnd` |
| `RejectAllIsLastCorrect` | REJECT-ALL is a device's last rule | `ScriptIsExact`, `RemovalSucceeds` |
| `AllOrNothingCorrect` | a device's rules are enforced with their REJECT-ALL or not at all | `ScriptIsExact`, `TransactionsEnd`, `AddSucceeds` |
| `EnforcedIsRecordedCorrect` | what is enforced is in the database | `FilesKept` |
| `AllowedIsWhitelistedCorrect` | what is allowed is an answer for a white-listed name | `FilesKept`, `AddSucceeds` |
| `MudPolicyProofs!PolicyCorrect` | `MudManager` implements `DevicePolicy` | `ScriptIsExact`, `RemovalSucceeds`, `AddSucceeds`, `TransactionsEnd`, `AnswersFound` |
| `MudFetchProofs!ImplementsMudManagerCorrect` | `MudFetch` implements `MudManager` | `RetrievalFails` |
| `FetchTypeCorrect` | types of the retrieval | none |
| `ParsedIsGenuineCorrect` | what is parsed without `-i` is a genuine version of the event's file | none |
| `UnservedHasCauseCorrect` | a device is left without its file only for a cause | `SignaturesDiffer` |
| `EventFileProofs!TypeCorrect` | types of the reader: it stores at most one character behind its buffer, and that only as it returns; it reads no further than the file | none |
| `TextEndsInBufferCorrect` | if the lines fit, nothing is stored behind the buffer, and each text that is returned ends with a zero | none |
| `CharactersInOrderCorrect` | no character is handed over twice or out of order | none |
| `WellWrittenIsCutIntoLinesCorrect` | well-written lines become one event each, in order | none |
| `MudParserProofs!TypeCorrect` | the walk returns from no more calls than it made, and no counter exceeds its array while it is followed | none |
| `StaysInsideCorrect` | a store leaves the arrays only if the file has more entries than they hold | `DocumentsSay` |
| `ParsedCorrect` | what a finished walk leaves in `MudFileInfo` is the file, entry for entry | `DocumentsSay` |
| `OsmudProofs!OsmudTypeCorrect` | types of the loop | none |
| `EventIsReportedCorrect` | the event handled is the one dnsmasq reported | none |
| `OsmudIsMudManager`, `OsmudPolicyCorrect` | the loop implements `MudManager`, and so `DevicePolicy` | `EventsReported`, and those of `PolicyCorrect` |
| `CaughtUpIsEnforcedCorrect` | when the log is read to its end, each address it settles has the rules of its present holder | `EventsReported`, `ScriptIsExact`, `DownloadsSucceed`, `FinishSucceeds`, `RemovalSucceeds`, `AddSucceeds`, `CreateSucceeds`, `AnswersFound` |

Besides these, every theorem rests on the assumptions the modules make of their
constants. The named ones are the limits of the code, beyond which the statements
fail or are not claimed:
`ScriptIsExact` (exact match, no redirects, at most ten sections: `rm_sort`),
`RemovalSucceeds` (else the old REJECT-ALL stays in front of the new rules),
`TransactionsEnd` (no crash in mid-transaction, no failing commit: `mm_crash`),
`AddSucceeds` (`uci add` does not fail inside the script, else a rule of another
device is overwritten),
`FilesKept` (lines are appended, and no reboot takes the files),
`CreateSucceeds` (the script that creates a rule can be run),
`DownloadsSucceed` and `FinishSucceeds` (else the code gives an event up, as it
means to), `SignaturesDiffer` (no two files of a site differ in the extension
only: their signatures would have one name).
`DocumentsSay` (each document says its MUD file: every list of entries is in its
section, what is named or typed in a section is an entry of it, entries of a list are not
nested in one another, ACEs are in ACLs, the keys of an ACE are used in ACEs only, and
an ACE that names a domain has no array that makes it another type).
TLC finds that all the styles of `parse_styles` say their files and that the test
file, on which `parse_test` shows stores before the arrays, says none
(`StylesAssumption`).
`AnswersFound` is the contract of `getaddrinfo`: it succeeds only with at least one
address. `InitialRulesOK` says that no rule names one leased address on both ends;
the rules osMUD makes never do. `EventsReported` and `RetrievalFails` are no limits
of the code: they choose the instance of `MudManager` to implement, the one that is
given what dnsmasq can report, and the one whose downloads may fail.

*Induction.* The library's induction theorems take an operator as a parameter. What
is needed here is first-order: `LeastNumber` of `FirewallProofs` (a set of naturals
that is not empty has a least element) comes from the well-foundedness of `<`, and
`NumberInduction` and `SequenceInduction` state induction for a set of numbers or
of sequences. With them `FlattenSeq`, which the policies of a file and the tokens of
a line are made of, is characterised by what it does to one more element, and
everything else is proved from that.

*Removal script.* The invariant `IInv` says that what is still to be deleted is
what the pipeline would print now. It is inductive because the loop always
deletes the last section that involves the address (`FirewallProofs`), which
moves only sections that do not. `OriginInv` relates the staged rules, through
the history variable, to increasing positions of the original ones.

*Types of the manager.* `TypeOK` alone is not inductive: `StageInv` adds that a
stage finds the data it works on.

*Transaction.* `BaseInv` carries the removal script's invariant into the manager
(`removing` implies `lines = MatchingLines(staged, event.ip)`) and bounds the
configuration. `OrderInv` says that while a device's rules are made its REJECT-ALL is
absent, since the removal took it away; so no rule is ever appended after it. It holds
through kills, crashes and reboots because deleting a suffix of the work or returning
to the committed configuration keeps the order, and through overwritten rules because
what is written over the last rule keeps at most the destination of that rule, which
has no REJECT-ALL before it either. With such rules the equation in `BaseInv` is no
longer invariant (see the end of section 3), and `OrderInv` asks for inclusion only:
the script has at least the lines to delete that the pipeline would print now.
`AllOrNothing` rests on `BaseInv`: `ClosedInv` adds that during a transaction only the event's own device may lack its REJECT-ALL,
and that at `finish` without error it has it; the commit then keeps everyone
closed, and the rollback restores what was.

*Record and white list.* What is committed is not inductive by itself: `RecordInv`
and `WhitelistInv` speak of all rules, staged or committed, since only installing
makes new ones (`OldRules`, `NewRules`). They add that a device is recorded
before its handler reaches a stage that makes rules, and that the answers in hand
belong to a name just white-listed. Both files only grow.

*Refinement of DevicePolicy.* `Progress` relates the place in the three nested loops
to the rules made so far: those of the entries passed, which together with a choice
of answers for the entries to come are one of `PoliciesOf` the file. `AtStage` says
so for the stage at hand, unless something failed; `OthersInv` adds that the rules
of the other devices are at all times staged as they are committed. So a commit
changes the policy of one device to a complete one (`Enforce`) or to none
(`Release`), and every other step leaves all of them. `PolicyInv` was checked with
TLC before, on `mm_serve` and with faults (2.2 million states).

*Service.* `ServeInv` says that everything the three loops have still to do can be
installed, and nothing has failed yet, from the parsing of the file on.

*Retrieval.* The refinement is proved action by action; its mapping is the
identity, for `MudFetch` has the variables of `MudManager`. `FetchInv` says that
after the download the stored file is a version published since the event, or no
MUD file at all. The signature tells the two apart, the signature is never stored
over the file (`LocationsDiffer`), and nothing writes it before it is parsed.
`FetchTypeInv` adds what the stored files hold. For the causes `CauseInv` says that
in an untroubled retrieval the stored file, and then the stored signature, are those
of the version the retrieval began with; a check that fails contradicts it.

*Reader.* `StoreInv` relates the buffer to the file: its characters are the last ones
read, and consecutive characters of one line, so in a log of lines that fit there is
room for the zero when the newline comes. `OrderInv`: what was handed over, and after it what is in the buffer, was
read before the offset, and the file with what is still to be appended is in order.
`CutInv`: for well-written lines there are positions `start[i]` at which the lines
begin, the reader is at some place of some line, and the events are the lines
before it that are long enough to be one.

*Parser.* Its documents are well nested (`WellNested`, an assumption on the constant
that holds of what json-c makes of a text), which alone gives the types: the stack is as
long as the place is deep. `StackInv` says more: each state on it is that of the innermost
section around the place at that depth, so the state a token is met in is its
section. `MfiFilled` says that each counter counts the entries of its section passed so
far, and that each entry has what was said inside of it so far. The entries of a list do
not enclose one another, so the last one passed is the one around the place: a
store finds an entry, and the right one. At the end all that the document
says has been stored. The proof quantifies over all documents; that places are nested
is derived from `Depth` alone, and no induction over the tree is needed.

*Loop.* A line is cut into its tokens field by field (`TokensAppend`), so that each
token has its place whichever fields are empty (`EventIsReported`). The steps of the
loop are then steps of `MudManager`. For `CaughtUpIsEnforced` the process may be
killed in mid-transaction and start the log over, so what is staged need not be what
is enforced, nor that what the log says, until the lines have been dealt with.
`CaughtUpInv` says what holds throughout: of the lines dealt with since the start,
the last that settles an address is in force, and nothing else is staged for the
address outside its own transactions (`DoneInv`); an address no line settles has the
rules a reboot left it, or none (`KeptInv`); and the last line that settles an
address says who has it (`LeaseInv`). The other conjuncts are the invariants above.
All but `AtStage`, which quantifies over the policies of a file, were checked with
TLC before they were proved, with crashes, kills, reboots and lost lines (2.0 million
states).

Only model-checked: all liveness (`EventCompletes`, `FileIsEnforced`,
`LeaverIsReleased`, `EveryLineIsRead`, `EveryLineIsAnEvent`, `FileIsParsed`), which
needs fairness and `ENABLED`, out of the prover's reach.

## 5. What is abstracted or left out

- A rule has two addresses and a target. Zones, ports, protocol, family and name
  are written and never read back. What the firewall makes of the target `DENY`
  is outside of the repository.
- Leased addresses and the addresses names resolve to are disjoint
  (`AddressAssumption`).
- The database and the white list are the sets of their lines: both scripts only
  append, and no reader counts.
- `create_ip_fw_rule.sh` adds the whole rule, or nothing, or (fault "add")
  overwrites the last section; the `uci set` calls in between are not steps.
- Of a MUD file only what decides the course of `mud_manager.c` is kept: the names of
  access lists, ACLs and domains, the actions, and whether an ACE has a name and its
  ports. A name is one word: of one that is empty or has a blank in it the shell makes
  other options, so that `-t` is lost and `create_ip_fw_rule.sh:83` refuses the call; the
  models do not have such names. Protocols and types of ACLs are left out, as a missing one
  is read as "all" (`openwrt.c:45` and `openwrt.c:72`); an ACE without an action is not
  modelled either (it crashes the process, `openwrt.c:61`). Of a stored
  file it only matters which version of which URL it is; paths are not modelled,
  so neither is the buffer at `dhcp_event.c:56`, which is one byte short.
- A file whose entries exceed an array, or that stores outside of one, is not
  followed further: that is undefined behaviour. So are lines with fewer than ten
  fields, on which the code reads uninitialised memory; `file_torn` shows that
  they occur.
- A firewall restart is part of commit and rollback.

Not modelled:

- `osmud-dnsmasq/isMudBlocking.sh`: it decides one lookup from a file and changes
  nothing. The file is another one than the white list osmud writes, and nothing
  in the repository runs it, so there are no steps to interleave with. By its text
  it stops at the first line of a device, as the hazard at its line 43 says.
- `remove_mud_db_entry.sh`: no code runs it.
- Event counters, the heart beat, logging, option parsing other than `-i`,
  daemonising and the PID file: nothing reads them back.
- The 50 addresses of `ipList` (`mud_manager.c:393`): a model with the bound could
  only repeat the comparison the code does not make.
- The rest of `oms_utils.c`, the sample device, the YANG models and the build:
  helpers without state, a sketch that is not built, and data.

## 6. What is left

1. `create_ip_fw_rule.sh` one `uci` call at a time, with a failure between any two;
   the walk of `MudParser` over documents that mix styles within one file.
2. Proofs: `CaughtUpIsEnforced` on top of `MudFetch`, so that the downloads
   one by one and the loop are in one theorem.
