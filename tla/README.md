# Formal models of rdesktop's TCP layer (src/tcp.c)

These modules model `src/tcp.c` in TLA+: the TCP/TLS transport of rdesktop, and the
trust-on-first-use (TOFU) certificate cache it uses to check the server's
certificate. The TLC runs check them on small instances. TLAPS proves every safety
invariant the passing runs check, and the refinement of the send path to an
abstract serial socket, for every instance.

## The system

`src/tcp.c` has five parts. They share a handful of process-wide globals.

| Part | Code | State | Operations |
|---|---|---|---|
| Buffer pool | `g_out[STREAM_COUNT]`, `g_in` | the output streams, the round-robin index `cur_stream_id`, the inbound stream | `tcp_init`, `tcp_reset_state` |
| I/O engine | `tcp_send`, `tcp_recv`, `tcp_run_ui` | `g_network_error`, `g_run_ui`, the SCARD lock | send loop, receive loop |
| TLS session | `tcp_tls_connect`, `tcp_tls_get_server_pubkey` | `g_tls_session`, `g_ssl_initialized` | handshake, then `check_cert` |
| Trust store | `check_cert`, `cert_tdb_verify`, `cert_tdb_store`, `cert_store_cache_filename` | one file per server identity under `$HOME/.local/share/rdesktop/certs/`, named by the djb2 hash of the certificate's CN | verify, store on first use, prompt on mismatch |
| Connection manager | `tcp_connect`, `tcp_disconnect`, `tcp_get_address`, `tcp_is_connected` | `g_sock`, the cached resolution of the last server name | connect, tear down |

How the parts interact:
- `tcp_connect` allocates the streams.
- `tcp_tls_connect` switches both I/O loops to the TLS record layer, and calls the trust store.
- In a `WITH_SCARD` build, the smart-card threads call `tcp_init` and `tcp_send` concurrently with the main thread, under `scard_lock(SCARD_LOCK_TCP)`.
- Only the main thread calls `tcp_recv`, `tcp_reset_state` and `tcp_disconnect`. Neither `tcp_reset_state` nor `tcp_disconnect` takes the lock.
- The certificate cache lives in the file system. Every rdesktop process on the machine shares it, and none of them locks it.

What makes this code hard, and what the models cover:
- threads interleaving on the output pool and the socket;
- a partial write followed by a fatal error;
- the peer closing or resetting the connection in the middle of a read;
- cancellation through `g_exit_mainloop`;
- a crash between the two steps of a store;
- two processes racing on one cache file;
- a hash collision;
- the operator's answer to the mismatch prompt.

## Modules

### `CertStore`: the trust store

`CertStore` models `check_cert`, lines 432-589, and the file callbacks at lines 106-207.

State:
- `store[f]` is the content of cache file `f`. It is one of:
  - `NoFile`;
  - `Empty`, after `fopen("w+")`;
  - `Garbage`, a line that is not base64;
  - a key. A key stands for the record's two lines; the expiration time is never read back.
- `dir` is the cache directory: a directory, missing, or a path that is not a directory.
- Per process `c`: `pc[c]`, the identity `id[c]` and the key `key[c]` presented by the server.
- Two ghost variables record the operator's decisions:
  - `trusted[i]` is the set of keys for identity `i` that were accepted on first use or confirmed with "yes";
  - `pinned[i]` is the last of them.

The actions:
- `HandshakeDone` is the end of the handshake in `tcp_tls_connect`.
- `check_cert_dir` covers `stat`, `rd_certcache_mkdir` and the "not a directory" bail.
- `cert_tdb_verify` has one disjunct per return of the function:
  - no file, or an unreadable first or second line: the file is unlinked, then stored;
  - a key that does not decode: unlinked, then a mismatch;
  - a different key: a mismatch;
  - the same key: accepted.
- `MismatchPrompt(c, r)` is the `util_dialog_choice` answer:
  - "no" bails out;
  - `NULL` crashes in `strcmp`, so the check ends with nothing stored;
  - "yes" stores the new key.
- `cert_tdb_store` is split in two steps, `cert_tdb_store_open` (truncate) and `cert_tdb_store_write` (the `fclose` that writes the buffered lines), because a crash or another process can come between them.
- `Accept` and `Reject` are `return 0` and `bail`.
- `Finish` is `exit(1)` or the end of the session.
- `CacheFile`, a constant function from identities to files, is `cert_store_cache_filename`.

`CertStoreFaults` adds two actions, each in a specification of its own:
- `check_cert_no_home`: HOME unset, lines 451-454;
- `Crash`: the process dies between two steps.

`MC_CertStore` gives the hash function to TLC.

### `TcpSend`: the output pool and the send loop

State:
- `slot[s]` is the packet `g_out[s]` holds;
- `cur` is `cur_stream_id`;
- `lock` is the SCARD lock;
- per thread: `ppc`, `mine` (the stream `tcp_init` returned), `length`, `total`;
- `wire` is the sequence of units written to the socket, each tagged with the call that wrote it and the packet whose data it carried;
- `net_err` is `g_network_error`.

The actions:
- `tcp_init`.
- `FillStream`: the caller writes its packet. That code is outside `src/`, so it is modelled from the spec.
- `tcp_send` is split into:
  - `tcp_send_enter`: the length is read, then the flag, before the lock;
  - `tcp_send_lock`;
  - `tcp_send_chunk`: one `send`/`gnutls_record_send` writes `n` of the remaining bytes;
  - `tcp_send_fail`: the fatal branches;
  - `tcp_send_done`.
- `tcp_reset_state`, taken by the main thread between its calls.

### `TcpRecv`: the receive loop

State:
- `rpc` is where the loop is;
- `size` and `end` are the stream's allocation and fill;
- `want` is the remaining `length`;
- `net_err`, `run_ui` and `exit_ml` are the globals;
- the peer: `avail` (unread bytes) and `peer` (`open`, `closed` for FIN, `reset` for RST).

`SSL` is a constant per run, because `g_ssl_initialized` does not change while data flows.

The actions:
- `tcp_recv_enter`: lines 345-372, both growth branches and the early return on the flag;
- `tcp_recv_select`: `ui_select` and the `g_exit_mainloop` test;
- `tcp_recv_data`;
- `tcp_recv_eof`: plain TCP returns NULL; over TLS, 0 bytes are added and the loop goes round;
- `tcp_recv_error`: a fatal error;
- `tcp_recv_retry`: a non-fatal TLS result;
- `tcp_recv_done`;
- `tcp_run_ui`;
- the environment: `ExitMainloop`, `PeerSend` and `PeerClose`.

## Runs

All runs use `tlc -workers 2 -config <cfg> <MC module>`.

| Run | Expect | Checks | What it shows |
|---|---|---|---|
| CertStore_tofu | pass | TypeOK, TrustOnFirstUse, StoreHoldsPin | one process: every accepted key was trusted by the operator, and the file holds the last pinned key whenever no store is in progress |
| CertStore_nohome | violation | TrustOnFirstUse | HOME unset: `return False` is 0, which is success |
| CertStore_crash | violation | TrustOnFirstUse | a crash after truncation turns the next changed key into a silent first use |
| CertStore_twoclients | violation | TrustOnFirstUse | two processes racing on one record |
| CertStore_garbage | violation | PromptOnlyOnMismatch | an undecodable record prompts the operator although nothing is stored (the spec says "unknown") |
| TcpSend_scard | pass | TypeOK, SendsNotInterleaved, SendAllOrError, LockReleased, SerialSpec | the lock serialises sends, a send is whole or sets the flag, and the path implements `SerialSocket`; if the peer drains the socket, no path of `tcp_send` keeps the lock |
| TcpSend_wrap | violation | NoForeignData | the pool wraps onto a stream still in use |
| TcpSend_reset | violation | NoLostPacket | the unlocked `tcp_reset_state` loses a smart-card packet silently |
| TcpRecv_plain | pass | TypeOK, NoOverflow, RecvReturnsAfterClose, CancelEndsRecv | reads stay in bounds; a read in progress returns once the peer has gone, or once the main loop is asked to exit while the UI loop runs |
| TcpRecv_tls | pass | RecvReturnsAfterReset | over TLS, a read in progress returns once the connection is reset, through non-fatal retries and pending records |
| TcpRecv_peerclose | violation | RecvFailureSetsError | in plain TCP, a peer close returns NULL with the flag clear |
| TcpRecv_tlseof | violation | RecvReturnsAfterClose | TLS end of stream: `tcp_recv` spins for ever |

In the TLS-EOF trace, the spin appears as the loop stuttering in `rpc = "loop"`. Each pass through `tcp_recv_eof` changes no variable, so the infinite loop is a behaviour in which the receiving thread never again takes a step that changes the state.

Every property of a passing run has a mutant in PROJECT.json: a plausible bug in the mapped code under which TLC finds the property violated. Examples are a dropped lock, `if` for `while`, a fatal branch that forgets to unlock, and an append that forgets the bytes already held.

### Bounds

- **CertStore**: two identities, three keys and two files. This is enough for:
  - a first use;
  - a changed key;
  - a second identity;
  - a record holding another identity's key.

  Every start state of the file and of the directory is enumerated (`InitContents`, `InitDirs`). Steps are unbounded: the state space is finite.
- **TcpSend**: two threads and 8 streams, the `WITH_SCARD` value of `STREAM_COUNT`. Packets are 2 units, so a write can be partial. There are 3 packets per thread in the passing run. The wrap run uses 9 packets with 1-unit packets, the fewest that make the index go round.
- **TcpRecv**: `InitSize = 2` with lengths 1 and 3, so both the no-growth and the growth branch are taken, and an append of 3 to a stream holding 1 needs the `end + length` sum. There are 3 calls, and at most 2 unread bytes from the peer.

### Fairness

- **TcpSend**: `WF` on `tcp_send_done` only. Once the loop has written everything, the thread leaves it without any call that can block, and the OS schedules a runnable thread. A write may block for ever if the peer never drains the socket (spec section 5), so `tcp_send_chunk` and `tcp_send_fail` get no fairness. Nothing is assumed of the lock's fairness, or of when threads choose to send.
  - `LockReleased` states the peer's part as a hypothesis: `PeerDrains => (lock # Nil ~> lock = Nil)`. `PeerDrains` says each lock holder's write eventually returns bytes or a fatal error. Under it, the property checks that every exit of `tcp_send` unlocks, the two fatal branches included.
- **TcpRecv**: `WF` on the main thread's steps inside `tcp_recv`. Nothing is assumed of the peer or the user. The loop waits in `ui_select` only while a readable socket or the exit request can wake it, so the fairness does not make the peer send. `RecvReturnsAfterClose`, `CancelEndsRecv` and `RecvReturnsAfterReset` are liveness properties and are checked only by TLC.

## The abstract socket (`SerialSocket`)

`SerialSocket` states what the SCARD lock promises (spec section 5), with no
threads, pool or partial writes:
- `owner` is the sender owning the socket, or `Free`;
- `stream` lists the senders of the units written so far;
- `Acquire(c)` takes the free socket, `Write(k)` appends `k` units of the owner, and `Release` frees it;
- `Spec == Init /\ [][Next]_svars`. It promises no release: a write may block for ever.

`TcpSend` maps onto it by `OwnerBar` (the call `CallOf(lock)` of the lock holder, or `Nil`) and
`StreamBar` (the `.by` field of each wire unit). Senders are the calls `Calls`.
`SerialSpec == Serial!Spec` is a PROPERTY of TcpSend_scard.

## Proofs (TLAPS)

Every proof follows one pattern. An inductive invariant is found and checked by TLC as an
invariant first. Then `Init => Inv` and `Inv /\ [Next]_vars => Inv'` are proved, one step per
action, and `PTL` concludes `Spec => []Inv`.

### `CertStore_proofs`

- **`TypeCorrect`**: `Spec => []TypeOK`, for every value of the constants.
- **`TrustOnFirstUseSingle`**: `Spec => []TrustOnFirstUse`.
- **`StoreHoldsPinSingle`**: `Spec => []StoreHoldsPin`.

The last two hold under two assumptions, stated as hypotheses of the theorems:
- `SingleProcess`: one rdesktop process;
- `InjectiveHash`: `CacheFile` maps distinct identities to distinct files.

The violation runs show that neither hypothesis can be dropped.

`TrustOnFirstUse` is not inductive on its own. A step that accepts a key found on disk needs to know that this key was trusted, and a first use needs to know that nothing was trusted before. The strengthening `IInv` adds three facts:
1. a key on disk is a trusted key of the file's identity;
2. a file without a key, not being written, belongs to an identity with nothing trusted;
3. a key being stored is trusted, or is the identity's first.

`StoreHoldsPin` rests on `PinInv`. It is `IInv` plus two facts:
- an identity has a pin exactly when it has trusted keys;
- a store in progress for an identity writes its pin, or the identity's first key.

### `TcpRecv_proofs`

- **`RecvTypeCorrect`** and **`RecvNoOverflow`**. `NoOverflow` is inductive together with `TypeOK` (`RecvInv`): `tcp_recv_enter` grows the stream to `end + length`, and `tcp_recv_data` moves `n` bytes from `want` to `end`.

### `TcpSend_proofs`

The type invariant and the safety theorems hold for any number of threads, streams, packet lengths and packets:
- **`SendTypeCorrect`**;
- **`SendsNeverInterleave`**: `Spec => []SendsNotInterleaved`;
- **`SendAllOrFailed`**: `Spec => []SendAllOrError`;
- **`SendImplementsSerial`**: `Spec => SerialSpec`, the refinement.

They all rest on `IInv`, which strengthens `TypeOK` and `SendsNotInterleaved` with these facts:
- a thread in the loop holds the lock (`LoopHoldsLock`);
- a thread past `tcp_send_enter` has a packet number of at least 1 (`StartedHasCall`);
- a unit on the wire belongs to an earlier packet of its thread, or to the current one while that thread is in the loop or idle (`UnitsOfStartedCalls`);
- the holder's units so far are the last ones on the wire (`LoopSuffix`);
- `total[p]` never exceeds the length (`TotalBound`);
- `total[p]` counts the units of p's current call on the wire (`SentCount`);
- an idle thread's last call is complete or the flag is set (`IdleDone`).

The refinement proof maps each action:
- `tcp_send_lock` to `Acquire`;
- a pass of the loop to `Write(n)`;
- `tcp_send_fail` and `tcp_send_done` to `Release`;
- the other actions to stutters.

The `Write` case needs the lemma `StreamBarAppend`: the mapped wire after an append is the old one followed by `n` copies of the caller.

The one constant assumption the proofs use is `TcpSendAssumption`. It says `Nil` is no thread and no call, and that the bounds are positive naturals.

### Only model-checked

- The liveness properties `LockReleased`, `RecvReturnsAfterClose`, `CancelEndsRecv` and `RecvReturnsAfterReset`. Liveness and `ENABLED` are beyond TLAPS.
- `TrustOnFirstUse` and `StoreHoldsPin` without `SingleProcess` or `InjectiveHash`, and `RecvFailureSetsError` for plain TCP. These are false, and the violation runs exhibit them.

## Not modelled, and why

- **`tcp_connect` and `tcp_disconnect`**: name resolution cache, address walk, stream allocation and free. Planned next (plan step 4). Their hazards are listed in PROJECT.json.
- **`tcp_tls_connect`'s handshake loop and `g_ssl_initialized` bookkeeping**: only the handoff to `check_cert` is modelled.
- **`tcp_tls_get_server_pubkey`, `tcp_get_address`, `tcp_is_connected`, `tcp_can_send`**: queries with no state of their own.
- **The `s_reset(&g_in)` of `tcp_reset_state`**: not in `TcpRecv`.
- **Byte contents, base64, logging and message formatting**: abstracted to the key or packet they carry.

## Plan

1. CertStore with its faults, runs and proofs. Done.
2. TcpSend. Done.
3. TcpRecv. Done.
4. Connection module: `tcp_connect` (resolve caching, the `g_last_server_name` update), `tcp_tls_connect` (`g_ssl_initialized` across failed handshakes) and `tcp_disconnect` (unlocked free racing the smart-card threads). Then a composition with `TcpSend`.
5. An abstract TOFU specification (a map from identity to pinned key, with accept, pin and re-pin), and `CertStore` shown to refine it under `SingleProcess` and `InjectiveHash`.
6. Proofs of the safety invariants and of the `SerialSocket` refinement. Done.
