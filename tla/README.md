# A verification of fido2-manage's libfido2 in TLA+

`fido2-manage` is a command line and graphical tool around a fork of libfido2, a
C library that talks to FIDO2 and U2F security keys over USB HID, NFC, PC/SC and
Windows Hello. This directory models that library, `src/src/`, and the tools
under `tools/` as far as they decide what a token is made to do. Paths below are
relative to the repository; `x.c:n` is a line of `src/x.c` of the repository
(`src/src/x.c` in `PROJECT.json`).

Contents: [1 the system](#1-the-system), [2 the modules](#2-the-modules),
[3 what is checked](#3-what-is-checked), [4 what is proved](#4-what-is-proved),
[5 findings and observations](#5-findings-and-observations),
[6 what is not modelled](#6-what-is-not-modelled), [7 plan](#7-plan).

## 1 The system

    gui, fido2-manage.sh  run fido2-token2 with a path from its list
      |
    tools                 one tool function at a time, on a device it opens
      |
    credman, bio, pin, largeblob, assert, cred, config, reset, touch, u2f, winhello
      |                   requests and replies; objects filled reply by reply
    dev                   fido_dev_t: handle, channel, nonce, flags, timeout
      |
    io                    fido_tx, fido_rx: CTAPHID messages as 64-byte reports
      |                 \
    hid_*.c               nfc, iso7816 over pcsc or nfc_linux, netlink
      |                   |
    the system's HID      NFC adapter, card reader

The library has no threads of its own. Concurrency comes from outside: other
processes (or other `fido_dev_t` objects in the same process) on the same token,
the token itself, the kernel's queues, callbacks and pending reads of the
platform, and time. The kernel copies every input report of a token to every
descriptor open on it, so that a client sees the answers to requests it never
made; and CTAPHID does not number transactions, so that a late answer looks like
a timely one. Neither do APDUs, and neither does netlink as the library uses it.

| component | state it keeps | operations | what makes it correct |
|---|---|---|---|
| CTAPHID messages: `io.c`, `time.c`, `hid_unix.c` | none between calls; within one: bytes sent, sequence number, bytes received, `*ms` left | `fido_tx`, `fido_rx`, `fido_rx_cbor_status`, `fido_time_delta` | a message is sent or received whole or not at all, whatever reports are late, foreign or dropped; a call ends, and overruns its timeout only as far as section 5 says |
| hidraw handles: `hid_linux.c` | descriptor and its `flock`, local retry counter | `fido_hid_open`, `_close`, `_read`, `_write`, `_manifest` | one owner per token; no reports of the previous owner; no leak; open returns |
| other HID backends: `hid_osx.c`, `hid_win.c`, `hid_*bsd.c`, `hid_hidapi.c` | a pipe, a pending read, the lengths of reports | the same | reports come in order, once, and of this open; a wait ends |
| device object: `dev.c`, `touch.c`, `reset.c`, `authkey.c` | `io_handle`, `cid`, `nonce`, `attr`, `flags`, `io`, `transport`, `timeout_ms`, `maxmsgsize` | `fido_dev_open`, `_close`, `_cancel`, `_force_u2f`, `_force_fido2`, `_get_touch_begin`, `_get_touch_status`, `_reset`, `_set_*` | a channel of its own; replies of its own; a closed object can be opened; flags say what is so |
| large blobs: `largeblob.c`, `compress.c` | none on the host; the token's array, written in chunks | get, set, remove, get_array, set_array | nobody's blob is lost; an interrupted write leaves the old array or an empty one |
| credential management: `credman.c` | result arrays `n_alloc`, `n_rx`; the token's enumeration cursor | metadata, get rk, get rp, del rk, set rk | the list is complete and contains nothing else |
| bio enrollment: `bio.c` | `fido_bio_enroll_t`: token, remaining samples, status; template arrays | enroll begin, continue, cancel, remove, set name, list, info | an enrollment object says what the token's enrollment is |
| client PIN: `pin.c`, `ecdh.c` | `dev->flags` bits it patches; the token's retry counters | set, change, retries, get UV token | the token asked for permits the command; no PIN attempt is wasted |
| assertions: `assert.c` | `fido_assert_t`: `stmt`, `stmt_cnt`, `stmt_len` | get, set_*, verify | statements present are statements of this call; verify accepts only what was asked for |
| credentials: `cred.c` | `fido_cred_t` | make, set_*, verify, verify_self | what is decoded is what its bytes say; verify accepts only what was asked for |
| U2F: `u2f.c` | none | register, authenticate, touch | polls until touched or out of time; CTAP2 options are mapped or refused |
| Windows Hello: `winhello.c` | none | make, get | what is asked for reaches the API or is refused |
| NFC, PC/SC: `nfc.c`, `iso7816.c`, `pcsc.c`, `nfc_linux.c`, `netlink.c` | a pending response in PC/SC's buffer, a netlink socket | open, tx and rx | chained APDUs put together whole; the target that was found is the one that is opened |
| configuration, info: `config.c`, `info.c` | none | one request, one reply each | malformed replies are rejected |
| CBOR: `cbor.c` | none | encode, decode | malformed data is rejected |
| keys, crypto, TPM: `es256.c` ... `tpm.c`, `random.c` | none | conversions, OpenSSL calls | signatures are over what is verified |
| support: `blob.c`, `buf.c`, `log.c`, `err.c`, `types.c`, `util.c` | - | containers, text | - |
| tools: `tools/*.c` | one run's device and PIN | the functions of `fido2-token2` | the exit status tells what was done, once |
| front ends: `fido2-manage.sh`, `gui*.py` | a chosen number | list, act | acts on the device that was chosen |

The behaviours that are hard, each at the line where it bites, are listed under
`hazards` in `PROJECT.json`, with the properties that would catch them going
wrong.

## 2 The modules

| module | what it is | models |
|---|---|---|
| `CtapHid` | one device object, reports | `io.c`, `time.c`, `hid_unix.c` |
| `HidMessage` | the abstract layer: commands, replies, no reports | what `CtapHid` promises |
| `CtapHidRefines` | the refinement mapping from `CtapHid` to `HidMessage` | |
| `HidOpen` | processes contending for a hidraw node | `hid_linux.c:258-327` |
| `CtapChannel` | several device objects on one token, messages | `dev.c`, `touch.c`, `u2f.c:861-959`, the receive loop of `io.c`, commands in general |
| `LargeBlob` | clients that read, change and write the large-blob array in chunks | `largeblob.c` |
| `BlobStore` | the abstract layer: lists of blobs, read and replaced at once | what `LargeBlob` promises |
| `Authenticator` | what a CTAP2 token keeps and may answer; operators | external |
| `DeviceInfo` | authenticatorGetInfo and the flags made of it; operators | `info.c`, `dev.c:37-104`, the iteration of maps and arrays in `cbor.c` |
| `TokenCalls` | clients calling functions of several exchanges each | `credman.c`, `bio.c`, `pin.c`, `ecdh.c`, `config.c`, `reset.c`, parts of `cred.c` and `assert.c` |
| `Attestation` | authenticator data, statements, signatures; operators | `cbor.c`, `tpm.c`, `es256.c`, `es384.c`, `rs256.c`, `rs1.c`, `eddsa.c` |
| `CredObject`, `AssertObject` | `fido_cred_t`, `fido_assert_t`; operators | `cred.c`, `assert.c` |
| `FidoObjects` | applications that fill those objects and verify them | |
| `WinHello` | objects to and from the WebAuthn API; operators | `winhello.c` |
| `U2fCalls` | the objects handed to U2F, FIDO2 and Windows devices | `u2f.c`, and the calls of `cred.c`, `assert.c`, `winhello.c` |
| `NfcApdu` | a device object on a card reader, APDUs | `nfc.c`, `iso7816.c`, `pcsc.c`, `nfc_linux.c` |
| `NfcTarget` | processes that open NFC readers of Linux | `netlink.c`, the open of `nfc_linux.c` |
| `HidReports` | open, read and close of every HID backend | `hid_*.c`, `hid_unix.c` |
| `ReportQueue` | the abstract layer: a queue of reports | what `HidReports` promises |
| `Tools` | runs of `fido2-token2` on one token | `tools/*.c` |
| `DeviceList` | what is listed, what a path opens, what a number means | the manifests of `dev.c`, `hid_*.c`, `pcsc.c`, `nfc_linux.c`, `winhello.c`; `tools/token.c`, `fido2-manage.sh` |
| `MC_*` | values, symmetries and compositions of the small instances | |
| `*_proofs` | theorems, of the module of that name; `Transports_proofs` of `NfcApdu`, `NfcTarget` and `HidReports`, `Tools_proofs` of `Tools` and `DeviceList` | |

`HidOpen`, `CtapHid`, `CtapChannel` and `LargeBlob` describe one stack, and each
takes from the one below what that one is checked to provide. `HidOpen` decides
who has the token open; `CtapHid` what happens to the reports of one handle;
`CtapChannel` takes messages as atomic, which `CtapHid` refining `HidMessage`
justifies, and asks what several handles do to each other. `CtapChannel` does not
assume the lock of `HidOpen`, which the backends of other systems do not take.
`LargeBlob` and `TokenCalls` sit on top, with a request and its reply in one step,
as `CtapChannel!OwnReply` allows; they do not assume the lock either. `U2fCalls` looks at
what the calls leave in an object rather than at their exchanges: a FIDO2 device
answers it in one step. `NfcApdu`, `NfcTarget` and `HidReports` are the
transports below `CtapHid`; `Tools` takes a library call, which may fail in the ways
the models below it show, as a step.

Modules of operators have no variables: a C function that changes an object is an
operator from the object before to the object after (and whether it succeeded),
and the specification that extends the module says when it is called.

In each module an operator named `X_Y` preceded by the comment "Faulty variant"
is `X` with a plausible bug. The specification does not use it; `PROJECT.json`
(`mutants`) lists which property each one must break.

### CtapHid

A byte is a pair of a command's number and a position, so that bytes of two messages, and
misplaced bytes, differ. `Begin` is the caller's call. `TxPreamble`, `TxFrame`,
`TxTooLong`, `TxFails` are `tx` (`io.c:122-145`): a report per step, the test `seq & 0x80`
before each continuation report. `RxSkip`, `RxPreamble`, `RxCont`, `RxTimeout`, `RxFails`
are `rx` (`io.c:198-293`): a read per step, keepalives and other channels passed over
before the first report but not after it, as in the code. A wait ends with no report
(`RxTimeout`), or a signal ends it or the read fails, whatever is queued and left
(`RxFails`). Time: a wait takes some number of ticks, `Ticks` of them in a millisecond,
and `Remaining` takes off whole milliseconds only, as `fido_time_delta` does.

The environment puts requests together from output reports, answers them in
order with a reply, an error, or never, sends its reports one by one, interleaved
with keepalives and with reports of another channel; and a report may be dropped
on the way to the handle. Keepalives and foreign reports (`IsNoise`) never need to
stop: only how many are queued at a time is bounded.

Two memory layouts of the code, not needed by a property, are left out: the
report id byte before every output report, and the union of first and
continuation reports.

### HidOpen

`Open`, `FlockOwns`, `FlockLate`, `FlockBusy`, `Wake`, `Reopen` are the paths
through `fido_hid_open` between its system calls, which is where other processes
get in between; `Interrupted` is a `flock` or `nanosleep` that fails; `Dies` and
`Close` close the descriptor. A report is represented by the session it belongs
to. Session labels are reused: a new session takes a label and all trace of an
old session with the same label is forgotten, which keeps the model finite
however many sessions there are.

### CtapChannel

Every request is tagged with the nonce its client drew when it opened the token
and with a number. `OpenTx`, `InitTakes`, `InitFails`, `InfoTakes`, `InfoFails`
are `fido_dev_open`; `Command*` are the commands of the form tx, rx that most of
the library consists of; `Touch*` are the touch requests, which send in one call
and receive in another; `Cancel`, `ForceU2f`, `ForceFido2`, `Close` are the
functions of those names, and `Renew` is the end of a process or of an object, at
any moment. `RxSkip`, `RxTakes`, `RxRefuses`, `RxFails` are `fido_rx` with atomic
messages; a refused message may leave its last reports on the queue ("part").
The token allocates channels and answers requests in any order, once each, with
a reply or an error.

`settled` is what the caller knows from return values: that every request has
been answered, that one touch request has not, or neither. `OwnReply` is about
callers for whom it is "yes" when they send.

### LargeBlob

`Call` is any of the five `fido_dev_largeblob_*` functions. `Read` is one turn of
the loop of `largeblob_get_array`, and the last turn goes on to what the caller
does with the array (`Act`): return, or change it (`Changed`: `largeblob_add`,
`largeblob_drop`) and write it. `ReadEmpty` and `ReadRefused` are the turns that
fail. `GetUvToken` is `largeblob_get_uv_token`; `Write` is one turn of the loop of
`largeblob_set_array`, or the digest after it. `Fails` is a request or reply
lost at any of these points, with the token having done its part or not.

The array is a sequence of units: a header that tells the number of elements,
`Parts` units for an element, and a digest, which is the value of the body and so
is right for one body only. An array whose digest is wrong is empty to its reader.
The token keeps the array, the write sequence in progress, and who holds the
PIN/UV token; `TokenForgets` is a power cycle, or a command that ends the
sequence.

`BlobStore` has no requests. A call looks at the list, and puts its own in place
in one step. The lists it may take for the current one (`Views`) are those there
have been while it looked, and the empty one if there have been two: that is what
chunked reads by unlocked clients amount to. `LargeBlob!StoreSpec` says that
`LargeBlob` does nothing else.

### TokenCalls, Authenticator, DeviceInfo

`Call` is an application calling a function, with a PIN or without. Its
record `stage` says which exchange is next: `KeyExchange` (`fido_do_ecdh`,
`fido_dev_authkey`), `GetUvToken` (`fido_dev_get_uv_token`, with `UvTokenSubcmd`
for its three forms and `WantedToken` for the permissions), `Command`, and
`NextRequest` for each further entry of a list. `CommandUnsent` and `CommandUnread`
are an exchange of which the request, or the reply, is lost, or whose reply cannot
be parsed: the object is then left as the code leaves it (`Refused`; `Malformed`, where
a template array has counted the entries before the malformed one, and the other lists none;
`EnrollCleared`, and `EnrollPartly` where the count of samples was read before the
parsing failed). `Open` is `fido_dev_open` as far as `dev->flags` go,
`OpenFallsBack` an open whose authenticatorGetInfo got no answer, or a malformed
one (`BadInfo`; what of it `cbor.c` and `info.c` reject is `DeviceInfo`), and which
becomes a U2F device. `FreeEnroll` frees an enrollment object, `TimersRunOut` is
the token forgetting cursors and PIN/UV tokens.

`Authenticator` is external: it takes from the code which requests and fields there
are, and is otherwise as free as the library must expect. It keeps an enumeration
cursor, one set of valid tokens, an enrollment and the key agreement keys, none of which
a request names, so that clients disturb each other.

`crossed` (the secret was dropped because of another client), `mixed` (an enumeration
of the same kind by another client came in between), `known` (no other client and no
lost reply has changed whether there is a PIN) and `heard` (the last reply about the
enrollment was read) are history: they say what the properties may be asked for.

### Attestation, CredObject, AssertObject, FidoObjects

A byte string is a record of what is in it; a hash a record of what is hashed, so
that two hashes are equal if their contents are; a signature a record of key and
digest. Over these, `Attestation` has the decoders of `cbor.c` (`DecodeCredExtensions`,
`DecodedCredAuthdata`, `DecodedAttStmt`, `DecodedAssertAuthdata`) up to the point where they
stop on malformed data and what they have filled in by then, the digests of
`cred.c`, `assert.c` and `tpm.c`, and the verifications of the key modules.
`CredObject` and `AssertObject` have one operator for each setter and each
verification. `FidoObjects` composes them: an application (`Programs`) calls the
setters in any order, with any of its values, some of them malformed.

### U2fCalls, WinHello

`MakeCredU2f`, `LookupExcluded`, `DummyRegister`, `Register`, `GetAssertU2f`,
`LookupAllowed`, `Authenticate` are the exchanges of `u2f.c`, with `NotTouched` one
turn of a polling loop: an exchange, a pause (`Delay`), and both taken off `ms`
(`Charged`, by `fido_time_delta` inside the exchange; `Slept`, `u2f.c:165-189`). The loops
have no exit for `ms` being 0, and whether an exchange then fails is the transport's
affair: a read of hidraw times out, one of PC/SC takes no notice (`pcsc.c:305-310`). So
an exchange may here take any time, whatever is left, and may fail at any time. `MakeCredFido2`,
`GetAssertFido2`, `MakeCredWinhello`, `GetAssertWinhello` are calls of the other
kinds with one of their outcomes each, early failures and malformed replies
included. `WinHello` translates what `winhello.c` packs into a request, what it
refuses, and what it unpacks.

### NfcApdu, NfcTarget

`NfcApdu` has the loops of `nfc.c`: `TxChunk` and `Status` for each chained APDU and
its status, `TxLast`, `RxMore`, `RxLast`, `RxOverflow` for the pieces of a reply
(`RxMore` is a `GET RESPONSE`), over a PC/SC reader, which exchanges an APDU for
its response within the write, or a raw socket, which queues what comes. The card
(`CardAnswers`) puts the request together and may refuse any APDU; writes fail, and a
socket may die.

`NfcTarget` is `fido_nfc_open` on Linux, one step per netlink message sent or
read: resolve the family, power the reader, start the poll, join the group, wait 100 ms
for an event, leave, ask for targets, connect. The kernel finds and loses targets
on all readers and tells all members of the group.

### HidReports, ReportQueue

One specification of all backends; an action names the systems it belongs to. The
differences that matter are here: the pings that NetBSD and OpenBSD send at open
to synchronise data toggles, the run loop of macOS, whose callback writes into a
pipe that later reads empty, the overlapped read of Windows, which stays pending
when its wait has timed out. `ReportQueue` is what they have in common: a queue of
what came since the open, from which some may be lost. `HidReports!QueueSpec` is the
refinement; its `Unread` concatenates the places where reports wait.

### Tools, DeviceList

`Tools` has every function that `fido2-token2` reaches as a sequence of library
calls, each with how it deals with the PIN (`how`); `Main`, `OpenDev`, `Prompt` and the
`Call*` actions are one run of the program, `ShouldRetry` is `should_retry_with_pin`
(`tools/util.c:639-655`), and a run ends with its status. Two processes may have the token
open together where the system lets them (`shared`).

`DeviceList` has devices plugged in and out of places (HID nodes, NFC adapters,
card readers), the manifest of each backend with its order and its filter
(`HidManifest`, `PcscManifest`, ...), what opens for a path of it (`OpenPath`), and
`ScriptChooses`, `ScriptActs`, the way of `fido2-manage.sh` from a number the user was
shown to a path. Another process may hold a device, and the two differ in what that
does: the manifests of the BSDs and of NFC open the node and leave out one that is held
(`ListsAlone`), those of Linux and macOS list it, and the open then fails, at the `flock`
(`hid_linux.c:275`) or because the device cannot be seized (`hid_osx.c:451`;
`OpensAlone`). Readers, Windows and hidapi share what they open.

## 3 What is checked

| run | module, cfg | properties | distinct states, about |
|---|---|---|---|
| ctaphid | `MC_CtapHid`, `CtapHid` | `AcceptedWhole`, `OwnReply`, `RequestsWhole`, `TimeoutBudget`, `SentWhole`, `MessageSpec`, `CommandReturns` | 676,000 |
| hidopen | `MC_HidOpen`, `HidOpen` | `OneOwner`, `NothingOfTheAwaited`, `NoLeak`, `OpenReturns` | 162,000 |
| channel | `MC_CtapChannel`, `CtapChannel` | `OwnChannel`, `ReplyOfThisSession`, `OwnReply` | 1,668,000 |
| channel_closed | `MC_CtapChannel`, `CtapChannel_closed` | `ClosedCanBeOpened` (violated) | |
| channel_cancel | `MC_CtapChannel`, `CtapChannel_cancel` | `CancelTerminates` (violated) | |
| largeblob | `MC_LargeBlob`, `LargeBlob` | `AckedIsStored`, `StoreSpec` | 156,000 |
| largeblob_multiple | `MC_LargeBlob`, `LargeBlob_multiple` | `StoredCanBeRead` (violated) | |
| calls | `MC_TokenCalls`, `TokenCalls` | `EntriesOfOneCall`, `TokenPermits`, `FlagsFollow`, `SamplesRemaining`, `ListIsStored`, `PinAttempts` | 953,000 |
| objects | `MC_U2fCalls`, `U2fCalls` | `VerifiedIsAttested`, `GenuineAccepted`, `DecodedTogether`, `AssertionIsGiven`, `GivenAccepted`, `TimeoutKept`, `CredentialOfThisCall`, `AssertionsOfThisCall`, `U2fReturns` | 94,000 |
| transports | `MC_Transports`, `Transports` | `RequestsWhole`, `OwnReply`, `OpenedClean`, `FoundByThisOpen`, `TransportReturns`, `QueueSpec` | 390,000 |
| tools | `MC_Tools`, `Tools` | `WrongPins`, `StatusTells`, `ListedOpens` | 1,219,000 |
| tools_device | `DeviceList`, `Tools_device` | `ActsOnSeen` (violated) | |

Two `MC` modules put modules side by side that share no state, and a behaviour is one of
the one or of the other: `MC_Transports` (`NfcApdu`, `HidReports`, `NfcTarget`) and
`MC_Tools` (`Tools`, `DeviceList`). Their variables and actions have different names, so
that the `MC` and `*_proofs` modules can extend all of them. Others restrict a behaviour
to one of several scopes, named below, where all of them together would be too many
states.

**ctaphid.** Reports have 8 bytes, the smallest size `fido_dev_open_tx` accepts
(`CTAP_MIN_REPORT_LEN`): a first report then has one byte of data and the others three.
Behaviours with a clock (`Clocked`) have two commands whose requests and replies take two
reports each, two milliseconds of two ticks, so that a wait may be less than a
millisecond, and writes of up to one and a half; nothing is lost. At most three of a
command's reports take no whole number of milliseconds (`MaxRests`), but any number take
none at all. Two foreign reports or keepalives are queued at a time, and however many
follow. The others (`Unclocked`) have three commands, the least for a late reply to meet a
later command and its successor, with two reports dropped and one foreign one queued at a
time; requests have 0 and 5 bytes, one report and three, or are on either side of 128
continuation reports, the real limit; replies are of 5 bytes, or 8, which the caller's
buffer of 5 does not hold. `AcceptedWhole` says that what is delivered is one whole reply,
`OwnReply` that it is the right one if nothing was outstanding, `RequestsWhole` and
`SentWhole` the same of requests, `MessageSpec` that all behaviours of the report layer
are behaviours of `HidMessage`, `TimeoutBudget` bounds how far a call can overrun its
timeout, and `CommandReturns` says that it ends, unless the reports it passes over never
stop and from some time on cost it no millisecond: the code does not end then (section 5),
and without this premise the run finds that behaviour. Unclocked replies of *two* reports
are left out: if the kernel drops the last report of one reply and the first of the next,
of the same length, the two halves are in sequence and `rx` cannot tell. This is a limit
of CTAPHID and not of the code; longer replies meet it when more of their reports are
dropped. `Unclocked` and `MaxLoss` say what is claimed.

**hidopen.** Three processes: an owner, one that waits, and one that takes the
token between the close and the second open of the one that waited. Two session
labels, as a process needs to tell only the session it waited for from others.
`MaxRetries` is 1 for the code's 20: the counter is tested and incremented, and 1
already has both outcomes on both sides of the `goto`. The proofs do not depend
on these numbers.

**channel.** A behaviour has one object that opens the token once and sends up to four
requests (`OneCalls`), on a token that is FIDO2 or U2F, with failures of every
call: four are what `fido_dev_open` needs, plus a touch request, a command that
meets its reply, and one after it. Or (`SeveralOpen`) two objects, with two
channels and two openings, which two objects may interleave or one may do twice, as
a crash and a restart, and two requests each.

**largeblob.** Elements of two units and chunks of three: the empty array is read
in one chunk, an array of one element in two, and an array of two fills two
chunks, the case of `StoredCanBeRead`. Two clients with a key each are enough for a
read to be disturbed in between its chunks, and for a write to be overtaken; a
third could only do what the second does again. There is room for two elements,
so that an array may be refused. `Protected` is TRUE: with it, a token obtained by
another client ends one's own writing. Without it (a token without PIN and without
permissions) `AckedIsStored` is not claimed: two sequences of chunks at the same offsets
mix in the token.

**calls.** Two clients and three calls in all, the least for a call to be disturbed by
another client between two of its exchanges and for a third to see what is left; one lost
request or reply. Two relying parties, one with two credentials, make lists of 0 to 2
entries; two samples make a template; two PIN attempts are one more than a call may lose.
The authenticator is of either generation: with permissions and final commands, or with
neither. A behaviour calls functions of one of six groups (`MCTopics`): two kinds of lists
(two groups), a list and a deletion, a list and a creation, enrollment, PIN and
configuration; functions of different groups within one behaviour are not checked, though
the theorems of section 4 cover them. `ListIsStored` excepts two clients that enumerate
the same kind of list at once: they do get each other's entries, as the protocol has no
position. `FlagsFollow`, `SamplesRemaining` and `PinAttempts` have the conditions that the
histories name.

**objects.** Eight attestations, in the three formats and four algorithms, with
extensions, too long for the digest of EdDSA, without; four assertions; and for malformed
bytes one of each place where a decoder may stop. Four applications set parameters, or
received data, in any order; ten call devices up to three times: excluded and allowed
lists of none to three, of which the device holds none to three. Time is in half of
`U2F_PACE_MS`, a timeout of three, exchanges of none to two, whatever is left: the last
pause is then cut short, or not, and an exchange may outlast the timeout. `TimeoutKept`
allows one that does, and counts none that begins when nothing is left; `U2fReturns`
excepts a transport that answers these for ever. `VerifiedIsAttested` and
`AssertionIsGiven` say that what verification accepts was made for exactly what the object
asks; `GenuineAccepted` and `GivenAccepted` the converse, so that a verification that
refuses everything does not pass.

**transports.** APDUs carry two bytes and responses two: requests of 2, 4 and 5
are one chunk, two exactly, and two and a rest; replies of 0, 2, 5 likewise, those of 6
do not leave room for the status in the buffer of 7, those of 9 overflow it. Three
commands and one failure, so that one can go wrong after another and be followed by
a third. `RequestsWhole` and `OwnReply` are about commands that find nothing of
an earlier one on its way; what the others find is said in section 5. Reports: all seven
backends, reads that wait for ever, not at all and for a while, a kernel queue of
two and four reports, so that it overflows. Targets: two processes on two readers,
two targets of which one may be there before, and two events in the queue.

**tools.** Two runs on one token, each with the right PIN, another or none, from the
prompt, `-w` or the environment; three wrong attempts, one more than two runs may spend;
one lost reply. Lists: all systems, two tokens and another device in three places, tables
(nodes, readers, entries) with room for two, so that they are full; four changes, by which
devices come, go, and are held by another process, before or after the list is made.
`ListedOpens` says that a path opens the device it was listed for, or nothing exactly if
another process holds a place that does not open twice. **tools_device** has the smallest
instance of the finding: two tokens and no change after the list.

**Fairness.** `ctaphid`: weak fairness of the calling thread, which includes the
end of a read whose timeout has expired; nothing is assumed of other clients, of the
caller, or of the authenticator, but for the premise of `CommandReturns` about reports that
never stop. `hidopen`: weak fairness of the steps of each
call of `fido_hid_open`, that is, that its process is scheduled and its sleeps
end; owners need never close. `objects`: weak fairness of the steps of a U2F call in
progress, which are the thread's, that is, its exchanges end, with whatever result; the
user need never touch the token. That a poll made with nothing left ends in an error at some
time is a premise of `U2fReturns` and not a fairness: the code does not see to it. `transports`:
the thread's steps and the end of a wait; and, for the status of a chained
APDU, which `nfc.c:45` awaits without a timeout, that the card answers or
the kernel ends the exchange. All of this is what an operating system provides.
The other properties are safety properties of specifications without
fairness.

**Deadlock** is checked in all passing runs but two: in `transports` and `tools` the
bounds on commands, events and changes are reached and nothing is left to do.

## 4 What is proved

`tlapm` proves, for all values of the constants that satisfy the assumptions:

| theorem | statement |
|---|---|
| `HidOpen_proofs!TypeCorrect`, `OneOwnerAlways`, `NothingOfTheAwaitedAlways`, `NoLeakAlways` | `Spec => []TypeOK`, `[]OneOwner`, `[]NothingOfTheAwaited`, `[]NoLeak` |
| `CtapHid_proofs!RequestsWholeAlways`, `SentWholeAlways`, `TimeoutBudgetAlways` | `Spec => []RequestsWhole`, `SentWhole`, `[]TimeoutBudget` |
| `CtapHid_proofs!AcceptedWholeAlways`, `OwnReplyAlways` | `Spec => [](FewLost => AcceptedWhole)`, `[](FewLost => OwnReply)` |
| `CtapHid_proofs!ImplementsMessages` | if `0 \notin ReplyLens`: `Spec /\ []FewLost => MessageSpec` |
| `CtapHid_proofs!NothingFromNowhere` | `MessageSpec => []Message!NoReplyFromNowhere` |
| `CtapChannel_proofs!TypeCorrect`, `OwnChannelAlways`, `ReplyOfThisSessionAlways`, `OwnReplyAlways` | `Spec => []TypeOK`, `[]OwnChannel`, `[]ReplyOfThisSession`, `[]OwnReply` |
| `LargeBlob_proofs!TypeCorrect` | `Spec => []TypeOK` |
| `LargeBlob_proofs!AckedIsStoredAlways`, `ImplementsBlobStore` | if `Protected`: `Spec => AckedIsStored`, `Spec => StoreSpec` |
| `TokenCalls_proofs!PinAttemptsHold`, `ListIsStoredAlways` | `Spec => PinAttempts`, `ListIsStored` |
| `TokenCalls_proofs!FlagsFollowAlways`, `TokenPermitsAlways`, `SamplesRemainingAlways`, `EntriesOfOneCallAlways` | `Spec => []FlagsFollow`, `[]TokenPermits`, `[]SamplesRemaining`, `[]EntriesOfOneCall` |
| `U2fCalls_proofs!TimeoutKeptAlways` | `CallsSpec => []TimeoutKept` |
| `U2fCalls_proofs!VerifiedIsAttestedAlways`, `GenuineAcceptedAlways`, `DecodedTogetherAlways`, `AssertionIsGivenAlways`, `GivenAcceptedAlways` | `CallsSpec => []VerifiedIsAttested`, and so on |
| `U2fCalls_proofs!CredentialOfThisCallAlways`, `AssertionsOfThisCallAlways` | `CallsSpec => []CredentialOfThisCall`, `[]AssertionsOfThisCall` |
| `Transports_proofs!TypesAlways`, `RequestsWholeAlways`, `OwnReplyAlways` | `Spec => []TypeOK`, `[]RequestsWhole`, `[]OwnReply` |
| `Transports_proofs!FoundByThisOpenAlways` | `TargetSpec => []FoundByThisOpen` |
| `Transports_proofs!HidTypesAlways`, `OpenedCleanAlways`, `ImplementsQueue` | `HidSpec => []HidTypeOK`, `[]OpenedClean`, `QueueSpec` |
| `Tools_proofs!WrongPinsAlways`, `StatusTellsAlways` | `Spec => []WrongPins`, `StatusTells` |
| `Tools_proofs!ListedOpensAlways` | `ListSpec => ListedOpens` |

*HidOpen.* None of the properties is inductive: that two processes do not both
use the token needs that a user holds the lock; that an idle process holds none
needs that a lock holder is using the token or about to reopen it; that a user's
queue has nothing of the sessions it waited for needs that a process which is not
waiting has an empty queue or has waited for nothing. `IInv` conjoins these.

*CtapHid.* For requests, `SendInv`: while `tx` is in its loop, the authenticator has put
together exactly the bytes written so far and expects the sequence number that comes
next, and what it has taken for complete (`todo`) are whole requests. A report
extends what is there by the next slice of the request (`FirstExtends`,
`NextExtends`), and the test `seq & 0x80` keeps the sequence number out of the
commands (`NextReport.type` is at most 127). The length fits its two bytes because
`fido_tx` refuses more. A transmission that failed leaves a part behind, and the
first report of the next one discards it. For time, `TimeInv`: what a call has
taken so far has been paid out of the timeout but for less than a millisecond for
each report; or the timeout is used up, by writes, and then nothing waits any more.

For replies, `ReplyInv`. The parts of replies that are of interest are the one read last,
those queued on the handle and the one the authenticator sends next. They are in the order
in which they were made, and what is missing between two neighbours was lost, so that
there is no more of it than `loss` (`Line`; `Shown` and `Sends` say that the reports are
those parts, or keepalives and foreign ones). While `rx` collects a reply, the report it
read last is the part before the next it asks for, and the buffer has the bytes up to it
(`Reading`). A part with the sequence number it asks for is the next one of the same
reply; or all the rest of that reply and the beginning of another are missing, at least as
many parts as a reply of several reports has continuation reports. `FewLost` excludes
that: no more reports have been lost than a reply of several reports has continuation
reports. It holds in all states of the run ctaphid, so the theorems cover what the run
checks; without it the properties are false, as section 3 says, and no code could make
them true. `ImplementsMessages` maps the parts still to be read to the messages
outstanding; it takes replies to have at least a byte, the status of CBOR or the contents
of an INIT. `NothingFromNowhere` is a theorem about `HidMessage` alone, and so holds of
`CtapHid` under the same conditions.

*CtapChannel.* The argument for `OwnChannel` is that of the protocol. Every nonce
in use by one client is in use by no other (`NoncesDiffer`: nonces are drawn from
a counter, 64 random bits being taken never to repeat); an INIT reply in a queue
or a channel in a client is one the token allocated for that nonce (`Granted`,
`ChannelGranted`); and the token never allocates a channel twice
(`AllocOneToOne`). A client takes a channel only if the nonce of the reply is its
own, so two clients with the same channel have the same nonce, and are one. For
`ReplyOfThisSession`, every request and reply on a channel carries the nonce the
channel was allocated for. Both need the test at `dev.c:185`: `NonceIsMine`'s
faulty variant breaks both. `OwnReply` rests on what is outstanding on the client's
channel, at the token or in its queue, by what its calls have returned (`InStep`):
after successes only, nothing between two calls and at most one thing during a call;
after a touch request begun and not answered, at most one; and if the client was
settled when it sent its last request, nothing that is not of that request. No step
of another client adds to it, because channels differ; a message that the
token sends takes the place of the request it answers (`AnswerNoMore`), a report
passed over or left of a refused message adds nothing (`TailNoMore`, `PartNoMore`),
and a reply taken was the one there was (`OneTaken`). A new channel
has nothing outstanding since nobody has sent with its nonce (`NothingYet`).

*LargeBlob.* `StoreSpec` is the refinement of `BlobStore`. Two facts carry it. A
reader takes the bytes it has put together for a list if their digest is right: a
digest among them belongs to a list there has been while it read (`DigestsSeen`),
and only one array has a given digest (`CheckedIsSerialised`), so the list is one
of those; if nothing has changed meanwhile, the bytes are a prefix of the stored
array (`ReadInv`) and hence in the end all of it (`ViewSeen`). A writer completes an
array only with the PIN/UV token, which one client has at a time; if that client is
past its first chunk, what the token has put together is the beginning of that
client's array (`WriteInv`), since every change of holder starts the holder at offset
0. So what is completed is the array of the client that completes it
(`TakesInOrder`), which is `AckedIsStored` and the step `Changes` of `BlobStore`.
`WriteInv` needs `Protected`; the theorem of types does not. That a digest is right for
one array only, and that arrays are stored whole, are in the model of the token.

*TokenCalls.* `PinInv`: a call in progress has cost no attempt yet (it returns with the
reply that tells of one), and a call about to ask for a PIN/UV token shares a
secret with the authenticator that the authenticator still has, or has been crossed.
The authenticator takes an attempt only for a wrong PIN or for a secret it does not
share (`TokenUsingPinCosts`, `ChangePinCosts`); every other answer is `Free`, which is a
lemma for each. So an attempt is lost in a step of the call that made the request, its
first, and for one of those two reasons.

The other proofs share `BaseInv`: the authenticator and the calls are well formed,
and a call is in a stage its function has. Every exchange is one of a few kinds of
steps (`Takes`, `Begins`, `Answered`, `Unread`, `Continued`), so that an invariant is
shown for these rather than for each function.

* `FlagsFollow`, from `FlagsInv`: the flags of a client that has `known` the
  authenticator since tell whether there is a PIN. What an open takes from
  `authenticatorGetInfo` is worked out symbolically: which options the map has for which
  authenticator (`OptionsOf`, `EntriesOf`), that they are in canonical order, and that
  the decoder therefore comes to each.
* `TokenPermits`, from `AuthInv`: flags that are enough to get a PIN/UV token also choose
  the commands that the authenticator has (`Speaks`); a call between getting its token
  and its command carries one adequate for that command (`Carries`), whichever of the
  three ways it was got (`GivenIsAdequate`); a token that an enrollment keeps is for
  enrollment (`Holds`).
* `SamplesRemaining`, from `SampleInv`: an object whose last reply was `heard` agrees with
  the authenticator if its template is the one being enrolled, and has none remaining
  exactly if its template is finished (`Agrees`); no two objects have the same template.
* `EntriesOfOneCall` and `ListIsStored`, from `ListInv`: between two exchanges of an
  enumeration, what has been read and what the authenticator's cursor still holds are
  disjoint and together what is stored for it (`Reads`), unless another client has
  read a list of the same kind. A call that returns `FIDO_OK` has made the last exchange,
  after which the cursor is empty.

*U2fCalls.* For time, `Budget`: while something is left, it makes up the timeout with what has
been spent; when nothing is, no more than the timeout and one exchange has been
spent. An exchange that outlasts what is left leaves nothing, and a pause takes no more
than is left (`DelayFits`); together they keep `Budget` (`SpentIsTaken`). The rest of the
proof shows that every step of every loop spends through these two.

For objects, `CallsInv`. `CredOK` is what holds of a `fido_cred_t` after any setters:
if it has authenticator data, everything decoded is of those bytes (`WholeDecoded`), and
if it has none, nothing is decoded; its certificate and signature are ones that the
application was given. From this alone, without the history, follow the properties of
verification: what a verification accepts has a signature over a digest of the object's
fields, which only the authenticator of one attestation made, over its own fields; hashes
and signatures being ideal, the fields are the same. The converse computes each
verification on the object's fields. `AssertOK` is the same for each statement. Every
setter and every call of `U2fCalls` keeps both, also when it fails half-way; where one
does not, the history `spoilt` names it. While a U2F call goes on, `Registering`
and `Authenticating` say what the loop has found: none of the excluded credentials passed
so far is the token's; of the allowed ones so far `nfound` are, and the statements up
to there are theirs. These make the final `stmt_len` the number of assertions
that were obtained (`AssertionsOfThisCall`).

*NfcApdu.* For requests, `InStep`: what the card has of the chain, what is on its
way to it and what the host has not sent are together the request; after a status that is
not success nothing is claimed, and the host stops. For replies, `InPieces`: what
the host has, what the response brings and what the card can still be asked for are
together the reply, less what the card refused to give. Both hold between the steps of
a command that began with nothing about, and `InPieces` on PC/SC always, as the
reader's exchange leaves nothing queued. A failed command may leave one APDU, which the
card may still execute with the request it belongs to. `CardStep` is the one lemma about
the card.

*NfcTarget.* `Apprised`, for a process that opens a reader: once an event of the reader
is in its queue, or has been read (`Told`), every target of the reader has been found
since its poll began; before it joins the group, its queue has nothing about
targets; and what names a target names one of those. So the request for targets, which
is made only after an event was read, is answered with a target found by this
open. The test that the event is of this reader (`Counts`, `netlink.c:529-551`) and
the kernel's forgetting of old targets when a poll begins are both needed.

*HidReports.* `PingsAnswered`: unless a wait for an answer was given up, a ping is sent
only when the token owes no answer and none is queued; while one is awaited there is at
most one, owed or queued; and once the handle is out, nothing that is owed, queued or read
ahead answers a ping. `Kept` says what only some systems keep: a pipe on macOS, a pending
report on Windows, pings on NetBSD and OpenBSD. The refinement needs no more than that:
every step either leaves `Unread`, the reports that were read ahead, the pipe and the
kernel's queue in this order, as it is (a report goes from one to the next), takes its
head (a read), loses some of it, or appends what the token sends. `JoinTail` and
`JoinAppend` are those facts about the three parts.

*Tools.* First, about the table of functions: each ends in its only call that
changes something (`Plain`), or is a look at alwaysUv and the toggle that depends on it
(`Checking`). Then `Underway`: until a run exits it has presented no wrong PIN, has lost no
reply and has changed nothing, since every call that does one of these is followed by an
exit, or by a retry with a PIN of a call that the token has refused for lack of one. What
is left of the calls keeps its form. So the last step alone decides what was
done, and its exit status is compared with that step (`Told`). `Alone` is for alwaysUv:
if two runs had the token open together, both know, and a run that was alone toggles the value
it has looked at. One lemma for each action shows `StepOf`: another run's part of the
invariant does not depend on what this one does.

*DeviceList.* `Numbered`: two places of one driver have different numbers. Plugging in
takes a free number, and there is one because a driver has fewer places than numbers
(`FreeNumberIs`). What a manifest lists is `Listable`, the entry of a place that
`copy_info` accepts and that open looks up by the same name, and opens unless it is held
and does not open twice (`ListableOpens`): a node by its number, which is its own
(`NodeOpens`); a reader by its position among all readers, which counts those without a
token too (`ReaderOpens`); and no more readers are listed than open will look at. All
orders and truncations of the list keep it `Listable`, and so do all steps after which the
user still has reason to believe it (`~changed`). `Sub` and `Kth` are there so that
sequences can be filtered and sorted without recursion.

**Assumptions.** Besides the types of the constants (`CtapHidAssumption`,
`NfcApduAssumption` and so on), which TLC evaluates for the instances:

* `CtapHidAssumption`: no reply has more continuation reports than there are sequence
  numbers, 128, as CTAPHID demands of an authenticator.
* `AuthenticatorAssumption`, `NoneAssumption`, `TokenCallsAssumption`: finitely many
  credentials and templates; `None` is none of the values it stands apart from; a kind of
  authenticator has the two options of `Kinds`.
* In `FidoObjects`: `MadeAssumption` and `GivenAssumption`, of authenticators: they attest
  what the formats admit (a U2F token one algorithm and no extensions, a TPM with
  SHA-1 and RSA), sign with a key of the statement's algorithm, and no key of a certificate is
  that of a credential; `ProgramsAssumption`, of applications: an object starts with a
  request only, and signatures, wherever an application has them from, are those of some
  authenticator, that is, nobody forges one.
* `HidReportsAssumption`: the value for no report is no report's number.
  `ToolsAssumption`: the empty string and `None` are no PIN, and a token allows at least one
  attempt. `ListAssumption`: a token is not also another device, and `Absent` is neither a
  device nor a path.
* `Protected` (LargeBlob), `FewLost` and `0 \notin ReplyLens` (CtapHid), at the
  theorems that need them.

`CredentialOfThisCall` claims that the credential passes verification unless
minPinLength was asked for: what the token answers to that is in its
settings, and `fido_cred_verify` compares it with what the object says. The run has an
application that asks for it (`pinMakes`).

The lemmas about data that recursion would need are stated of functions and sequences:
`DecodeCredExtensions` is the fold of `cbor_map_iter` written as a choice of the
entries that count, and no module with theorems reaches a `RECURSIVE` operator.

**Only model-checked:** the liveness properties (`CommandReturns`, `OpenReturns`,
`U2fReturns`, `TransportReturns`), which need fairness and are out of the proof system's
reach. Every other property of the passing runs is a theorem, under the conditions that
the table names. The properties of the four
runs that end in a violation are false and have none. The runs are still
needed: they show that the cases which the theorems speak of happen, and that the theorems'
properties fail when the code is changed (`mutants`).

## 5 Findings and observations

Four runs end in a violation, and each is a disagreement of the code with a manual
page or a help text of the repository; `PROJECT.json` (`findings`) quotes both sides.

* `ClosedCanBeOpened`: if `fido_dev_open` fails after it has set `dev->cid`, it
  closes the handle but leaves `cid`; the object can then neither be opened nor
  closed, only freed.
* `CancelTerminates`: after `fido_dev_cancel` of a touch request, the answer to
  that request is still to come, and the next command on the device takes it for
  its own.
* `StoredCanBeRead`: an array whose length is a multiple of the chunk length
  (`get_chunklen`, 64 less than the token's `maxMsgSize`, at most 1984) can be
  written but not read: the loop asks for the empty rest, and `fido_blob_append`
  refuses it. Every call but `fido_dev_largeblob_set_array` then fails.
* `ActsOnSeen`: `fido2-manage.sh -device n` takes `pcsc://slot0` whenever it is in the
  list, whatever `n` is (`fido2-manage.sh:138-141`); `-reset -device 2` resets the token
  in the card reader.

Met while modelling, without a run of their own. Devices and messages:

* If `authenticatorGetInfo` fails or times out during `fido_dev_open`, a FIDO2 key
  is opened as a U2F key with `FIDO_OK` (`dev.c:203-208`), unless
  `FIDO_DISABLE_U2F_FALLBACK` is set. Its PIN calls then fail without a request and
  `credman.c` refuses; PIN retries, reset and sensor information are still sent.
* An object that reads another client's INIT reply first fails to open
  (`dev.c:185-190`) instead of reading on, so concurrent opens without a lock fail
  now and then. Linux takes a `flock` and macOS seizes the device; PC/SC and Windows
  open it shared.
* After a reply was refused or timed out, its remaining reports stay queued: the
  next command fails on them or takes the late reply. `OwnReply` therefore has the
  condition that no earlier call failed. Closing and opening restores it.
* `fido_dev_set_timeout` "informs libfido2 not to block for more than ms milliseconds"
  (`man/fido_dev_set_io_functions.3:170-175`). Each single wait obeys. But `fido_rx` reads
  on past any timeout while reports of other channels, or keepalives, come in less
  than a millisecond each: `fido_time_delta` takes off whole milliseconds (`time.c:69-72`),
  a poll with 0 returns a report that is queued (`hid_unix.c:69`), and `rx_preamble`
  looks at nothing else (`io.c:201-208`). Since this takes reports that never stop,
  `CommandReturns` states it as a premise and there is no run of its own.
* On a system without the lock of `HidOpen`, a blob can be lost in two ways: a set
  or remove writes back the list it read, without what another client stored
  meanwhile; and one whose reading is disturbed by another's write may find the digest
  wrong, take the list for empty (`largeblob.c:460`), and write it back with its own
  blob only. `BlobStore` admits both.

Objects:

* `fido_cred_set_extensions(0)` clears the mask but not the values of credProtect and
  minPinLength (`cred.c:949-962`), and `check_extensions` compares the values: a
  credential made without extensions is then refused. `StaleExt` names these objects.
* `fido_cred_set_attobj` that fails half-way leaves part of what it decoded; so does a
  failed `winhello_make_cred`, and a failed `winhello_get_assert` leaves one statement.
* U2F calls leave the large-blob key and user attributes of an earlier FIDO2 call on
  the same object in place.
* An EdDSA signature is verified over at most 1024 bytes of authenticator data and
  hash: a longer one is refused.
* Windows ignores hmac-secret for credentials that are not resident
  (`winhello.c:411`), and the object then asks for an extension that is not there;
  and Windows needs client data, not its hash.
* `man/fido_cred_verify.3` lists the resident key attribute among what is verified;
  authenticator data does not tell it, and the code does not look at it.

Transports:

* `rx_cbor` of `nfc.c` drops the status word: a reply cut short by a refused `GET
  RESPONSE` looks complete. A late response on the raw socket, or a chain that was
  broken off, disturbs the next command.
* Reads of PC/SC ignore their timeout (`pcsc.c:305-310`), and `u2f.c` relies on a read without
  time left to fail: with nothing left, U2F polling over PC/SC goes on without pauses
  until a touch.
* Linux and macOS list a token that another process has open, which then does not open; the
  BSDs leave it out of the list.
* The netlink group is joined after the poll has begun: a target found in between is
  missed and the open fails after 100 ms. One event is read; others left in the
  queue make the next read, of the list of targets, fail.
* NetBSD's open fails if input and output reports differ in length. A read of macOS takes
  -1 for five seconds. The close of Windows frees a context after `CancelIoEx` without
  waiting for the read to be cancelled. hidapi lists every HID device on systems where it
  does not tell usage pages.

Tools:

* `fido2-manage.sh -reset` shows "Factory reset completed." for every error of
  `fido2-token2 -R` but `FIDO_ERR_NOT_ALLOWED`; `fido2-manage.sh` always exits with 0, and its `cut -d ':'`
  makes PC/SC slots other than 0 and NFC paths unusable.
* `FIDO2_PIN=""` makes credential management send an empty PIN, where `get_pin` takes it for
  none. `-P`'s PIN is taken from `argv[3]` whatever comes before.
* `lookup_key` matches a credential whose identifier is a prefix of the one asked for.
* `write_file` opens without `O_TRUNC`; the retries of `blob_set` and `blob_delete`
  reuse a PIN buffer without wiping it; `pin_set` exits without closing on an error.
* Two `-S -u` on one shared token may each read the option and toggle it: together they
  undo what both were asked for. `StatusTells` excepts a run that was not alone.

## 6 What is not modelled

`support` is the component with status `not_modelled`: containers, log and error
texts. Of the others, these parts are left out: the encoders and decoders of CBOR where
no property tells their results apart, conversions between key formats, AES, HMAC
and compression, which are pure and have no protocol; the parser of report
descriptors (`hid.c`, `hid_linux.c`), udev and strings of device information; the loading
of `webauthn.dll` and the made-up info of Windows; hmac-secret, credBlob and user
entities of objects; replacement of I/O and transport functions
(`fido_dev_set_io_functions`), which only tests use; options, files and printing of
the tools; `fido2-assert` and `fido2-cred` (`tools/assert_*.c`, `tools/cred_*.c`), which
`tools/CMakeLists.txt` does not build; the graphical front ends, which run
`fido2-manage.sh` and show its output; tests, fuzzers, examples. In the
modules: contents of messages beyond what the properties tell apart; memory
allocation failure, which every function treats like any other early failure.

Assumptions about the environment, each at the place it is used: nonces do not
repeat; a token allocates a channel only once; it answers a request at most once;
it takes a large-blob array only with the right digest, and issuing a PIN/UV token
invalidates the one before; a large-blob request that has failed is processed at
once or never; hashes have no collisions and signatures are not forged; the kernel
forgets the targets of a reader when a poll begins;
a token has no `FIDO_CAP_WINK` (with it, a U2F touch request is preceded by a command whose
reply is read, `u2f.c:897-900`).

## 7 Plan

What is left, in order of importance:

1. Larger instances of `calls` that mix the groups of functions, which the theorems
   cover but no run does.
2. The parser of report descriptors, and the extensions of assertions (hmac-secret).
3. `StaleExt`: a property of applications that set extensions twice, once the code
   clears their values.
