------------------------------- MODULE HTTPTls -------------------------------
(***************************************************************************)
(* TLS verification state of HTTPConnection (src/src/curl_connect.cpp,     *)
(* lines 545-617, 374-382, 977-983): the process-wide                      *)
(* certificate_bundle_path, and per connection the recorded scheme _proto, *)
(* the handle's CURLOPT_URL and its CURLOPT_CAINFO.  Peer verification     *)
(* itself is on in every state (libcurl's default, and what set_url sets), *)
(* so it is not a variable.  A URL with neither scheme makes set_url throw *)
(* before any change and is left out.                                      *)
(*                                                                         *)
(* certificate_bundle_path is a plain std::string that no lock guards.    *)
(* Its assignment copies characters and then a length, so it is two steps *)
(* here.  A caller that serialises set_certificate_bundle_path with every *)
(* set_url (ConcurrentSetter = FALSE) never reads it mid-write.  With     *)
(* ConcurrentSetter = TRUE a set_url in another thread (an execute, or a  *)
(* SharedHTTPConnection constructor) may read it during the write: that   *)
(* is a data race, and each read sees the old value, the new one, or a    *)
(* torn string (Garbage).                                                 *)
(***************************************************************************)
EXTENDS Naturals

CONSTANTS
    Conns,      \* HTTPConnection objects
    HttpUrls,   \* URLs starting with "http://"
    HttpsUrls,  \* URLs starting with "https://"
    Paths,      \* non-empty certificate bundle paths
    NoUrl,      \* CURLOPT_URL unset
    NoWrite,    \* no set_certificate_bundle_path in progress
    Garbage,    \* a string read while another thread writes it
    ConcurrentSetter

ASSUME HttpUrls \cap HttpsUrls = {} /\ "" \notin Paths /\ ConcurrentSetter \in BOOLEAN

VARIABLES
    certPath,   \* certificate_bundle_path; "" is the default store
    writing,    \* the path set_certificate_bundle_path is storing, or NoWrite
    conn        \* conn[c]: [proto, url, cainfo] of one HTTPConnection

vars == <<certPath, writing, conn>>

Scheme(u) == IF u \in HttpsUrls THEN "https" ELSE "http"

\* The global string starts empty; a constructed HTTPConnection has _proto
\* none and no URL, with libcurl's default CA store.
Init ==
    /\ certPath = ""
    /\ writing = NoWrite
    /\ conn = [c \in Conns |-> [proto |-> "none", url |-> NoUrl, cainfo |-> "default"]]

\* set_certificate_bundle_path: the assignment starts ...
SetCertificateBundlePath(p) ==
    /\ writing = NoWrite
    /\ writing' = p
    /\ UNCHANGED <<certPath, conn>>

\* ... and completes.
SetCertificateBundlePathDone ==
    /\ writing # NoWrite
    /\ certPath' = writing
    /\ writing' = NoWrite
    /\ UNCHANGED conn

\* What one read of certificate_bundle_path can return.
ReadCertPath == IF writing = NoWrite THEN {certPath} ELSE {certPath, writing, Garbage}

\* SET_ssl_verify(true) when the path read by empty() is empty; else
\* SET_ssl_verify_using_ca_bundle with the string copied by a second read,
\* which sets CURLOPT_CAINFO.  Both set peer and host verification on.
VerifySetup(r, chk, cp) == IF chk = "" THEN r ELSE [r EXCEPT !.cainfo = cp]

\* HTTPConnection::set_url: an https:// URL configures verification only
\* when _proto is not https yet, reading certificate_bundle_path once for
\* empty() and once more to copy it; an http:// URL sets _proto; then
\* CURLOPT_URL is set.
SetUrl(c, u) ==
    /\ ConcurrentSetter \/ writing = NoWrite
    /\ \E chk, cp \in ReadCertPath :
        LET r == conn[c] IN
        conn' = [conn EXCEPT ![c] =
                  IF u \in HttpsUrls
                  THEN [(IF r.proto # "https" THEN VerifySetup(r, chk, cp) ELSE r)
                          EXCEPT !.proto = "https", !.url = u]
                  ELSE [r EXCEPT !.proto = "http", !.url = u]]
    /\ UNCHANGED <<certPath, writing>>

\* reset_options: RESET_options runs curl_easy_reset, which returns every
\* option (URL and CA store included) to libcurl's default, and clears the
\* option map; HTTPConnection's _proto is not touched.
ResetOptions(c) ==
    /\ conn' = [conn EXCEPT ![c] = [@ EXCEPT !.url = NoUrl, !.cainfo = "default"]]
    /\ UNCHANGED <<certPath, writing>>

Next ==
    \/ \E p \in Paths \cup {""} : SetCertificateBundlePath(p)
    \/ SetCertificateBundlePathDone
    \/ \E c \in Conns :
        \/ \E u \in HttpUrls \cup HttpsUrls : SetUrl(c, u)
        \/ ResetOptions(c)

Spec == Init /\ [][Next]_vars

-----------------------------------------------------------------------------
(* Properties.                                                             *)

\* Types.  A CA store read mid-write may be any of the strings involved.
TypeOK ==
    /\ certPath \in Paths \cup {""}
    /\ writing \in Paths \cup {"", NoWrite}
    /\ conn \in [Conns -> [proto: {"none", "http", "https"},
                           url: HttpUrls \cup HttpsUrls \cup {NoUrl},
                           cainfo: Paths \cup {"default", "", Garbage}]]

\* CURLOPT_CAINFO is either libcurl's default store or a bundle path that a
\* set_certificate_bundle_path call stored: never the empty string (with an
\* empty path set_url keeps the default store, comment at line 546) and
\* never a string torn by a concurrent write.
CainfoFromSetter == \A c \in Conns : conn[c].cainfo \in Paths \cup {"default"}

=============================================================================
