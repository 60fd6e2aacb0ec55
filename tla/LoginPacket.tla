---------------------------- MODULE LoginPacket ----------------------------
(***************************************************************************)
(* LoginPacket::deserialize once its two strings are read: JSON documents  *)
(* and the tokens in them, each part in a try block of its own that        *)
(* swallows what is thrown.  An entry of a document is absent, of the type *)
(* asked for, or of another one, and then get<T>() throws.                 *)
(***************************************************************************)
EXTENDS Integers, Sequences, FiniteSets

CONSTANT MaxChain  \* bound: certificates in a chain

ASSUME ChainAssumption == MaxChain \in Nat

VARIABLES
    login,             \* what the client sent
    stage,             \* the next try block
    certificateChain,  \* the tokens of the chain pushed so far
    authToken,         \* the token, NoToken when there is none
    identity, microsoftAuth, clientData,  \* the fields of each, None when unset
    next               \* the next certificate

loginVars == <<login, stage, certificateChain, authToken, identity, microsoftAuth, clientData, next>>

\* std::nullopt.
None == [from |-> 0, present |-> {}]

\* What is read of a certificate: identityPublicKey lies beside extraData, the other
\* four within it.  An extraData that is no object has none of them.
IdentityKeys ==
    {"extraData", "displayName", "XUID", "identity", "titleId", "identityPublicKey"}

MicrosoftKeys == {"xname", "xid", "mid", "iss", "aud"}

ClientDataKeys ==
    {"SelfSignedId", "ServerAddress", "ClientRandomId", "DeviceModel", "DeviceOS", "DeviceId",
     "GameVersion", "LanguageCode", "GuiScale", "UIProfile", "DefaultInputMode",
     "CurrentInputMode", "SkinId", "SkinImageWidth", "SkinImageHeight", "SkinData",
     "SkinResourcePatch", "SkinGeometryData", "PlatformUserId", "ThirdPartyName", "PlayFabId",
     "TrustedSkin", "PremiumSkin", "PersonaSkin", "CapeOnClassicSkin", "CapeId",
     "CompatibleWithClientSideChunkGen", "IsEditorMode"}
-----------------------------------------------------------------------------
\* A token whose payload is empty (no two dots), unparsable, or an object with
\* the entries present, of which those in wrong have another type.
Token(name, payload, present, wrong) ==
    [name |-> name, payload |-> payload, present |-> present, wrong |-> wrong]

\* The empty string.
NoToken == Token(0, "empty", {}, {})

\* Tokens of the keys: none of them, all, or all but one; with one of the wrong
\* type or none.
Tokens(keys) ==
    {Token(1, payload, {}, {}) : payload \in {"empty", "broken", "object"}}
      \cup {Token(1, "object", present, wrong) :
               present \in {keys} \cup {keys \ {k} : k \in keys},
               wrong \in {{}} \cup {{k} : k \in keys}}

\* Mutant of Claims: what was read before a throw stays.
ClaimsSoFar(token) ==
    IF token.payload = "object"
    THEN [from |-> token.name, present |-> token.present \ token.wrong] ELSE None

\* The keys are read one after the other into a local value, which is assigned
\* only when none of them threw.
Claims(token) ==
    IF token.payload = "object" /\ token.present \cap token.wrong = {}
    THEN [from |-> token.name, present |-> token.present] ELSE None
-----------------------------------------------------------------------------
\* An entry of the authentication document, absent, right or wrong.
Entry == {"absent", "right", "wrong"}

\* Of the chain's certificates some may not even be strings.
Certificates(i) ==
    {Token(i, "notString", {}, {}), Token(i, "empty", {}, {}), Token(i, "broken", {}, {}),
     Token(i, "object", {}, {}), Token(i, "object", {"identityPublicKey"}, {}),
     Token(i, "object", {"extraData"}, {}), Token(i, "object", IdentityKeys, {}),
     Token(i, "object", {"extraData", "displayName"}, {}),
     Token(i, "object", IdentityKeys, {"titleId"}),
     Token(i, "object", {"extraData", "identityPublicKey"}, {"identityPublicKey"})}

Chains ==
    UNION {{c \in [1 .. n -> UNION {Certificates(i) : i \in 1 .. n}] :
              \A i \in 1 .. n : c[i].name = i} : n \in 0 .. MaxChain}

WholeToken(keys) == Token(1, "object", keys, {})

\* One of the three documents is out of the ordinary.
Logins ==
    [document : {"broken", "object"}, type : Entry, token : Entry,
     certificate : Entry \cup {"broken", "noChain"}, chain : Chains,
     microsoft : {WholeToken(MicrosoftKeys)}, client : {WholeToken(ClientDataKeys)}]
      \cup
    [document : {"object"}, type : {"right"}, token : {"right"}, certificate : {"right"},
     chain : {<<>>}, microsoft : Tokens(MicrosoftKeys), client : {WholeToken(ClientDataKeys)}]
      \cup
    [document : {"object"}, type : {"right"}, token : {"right"}, certificate : {"right"},
     chain : {<<>>}, microsoft : {WholeToken(MicrosoftKeys)}, client : Tokens(ClientDataKeys)]

LoginInit ==
    /\ login \in Logins
    /\ stage = "authentication"
    /\ certificateChain = <<>>
    /\ authToken = NoToken
    /\ identity = None /\ microsoftAuth = None /\ clientData = None
    /\ next = 1

\* The certificates up to the first that is no string.
Strings(chain) ==
    LET bad == {i \in DOMAIN chain : chain[i].payload = "notString"}
    IN IF bad = {} THEN chain
       ELSE SubSeq(chain, 1, (CHOOSE i \in bad : \A j \in bad : i <= j) - 1)

\* The type comes before the token and the token before the certificate: what
\* throws leaves the later ones unread and the earlier ones set.
ParseAuthentication ==
    /\ stage = "authentication"
    /\ stage' = "chain"
    /\ LET tokenRead == login.document = "object" /\ login.type # "wrong"
           certificateRead == tokenRead /\ login.token # "wrong"
       IN /\ authToken' = IF tokenRead /\ login.token = "right" THEN login.microsoft ELSE NoToken
          /\ certificateChain' = IF certificateRead /\ login.certificate = "right"
                                 THEN Strings(login.chain) ELSE <<>>
    /\ UNCHANGED <<login, identity, microsoftAuth, clientData, next>>

\* Without an extraData nothing is taken, not even the key; an empty one gives an
\* identity.  Of several with one the last that is whole stays.
ParseCertificate ==
    /\ stage = "chain"
    /\ next <= Len(certificateChain)
    /\ next' = next + 1
    /\ LET token == certificateChain[next]
       IN identity' = IF "extraData" \in token.present /\ Claims(token) # None
                      THEN Claims(token) ELSE identity
    /\ UNCHANGED <<login, stage, certificateChain, authToken, microsoftAuth, clientData>>

EndChain ==
    /\ stage = "chain"
    /\ next > Len(certificateChain)
    /\ stage' = "token"
    /\ UNCHANGED <<login, certificateChain, authToken, identity, microsoftAuth, clientData, next>>

ParseAuthToken ==
    /\ stage = "token"
    /\ stage' = "client"
    /\ microsoftAuth' = Claims(authToken)
    /\ UNCHANGED <<login, certificateChain, authToken, identity, clientData, next>>

ParseClientData ==
    /\ stage = "client"
    /\ stage' = "done"
    /\ clientData' = Claims(login.client)
    /\ UNCHANGED <<login, certificateChain, authToken, identity, microsoftAuth, next>>

LoginNext ==
    ParseAuthentication \/ ParseCertificate \/ EndChain \/ ParseAuthToken \/ ParseClientData

LoginSpec == LoginInit /\ [][LoginNext]_loginVars
-----------------------------------------------------------------------------
\* A certificate whose extraData can be taken.
Whole(token) ==
    token.payload = "object" /\ "extraData" \in token.present /\ token.wrong = {}

\* What is set comes from one token, whole: no mixture of two certificates, and
\* nothing of a token in which an entry has a wrong type.
NoneHalfFilled ==
    /\ identity # None =>
         \E i \in DOMAIN certificateChain :
            /\ certificateChain[i].wrong = {}
            /\ identity = [from |-> i, present |-> certificateChain[i].present]
            /\ \A j \in i + 1 .. next - 1 : ~ Whole(certificateChain[j])
    /\ microsoftAuth # None =>
         login.microsoft.wrong \cap login.microsoft.present = {}
    /\ clientData # None => login.client.wrong \cap login.client.present = {}

\* A failure stays in its try block: an unreadable document, chain or token does
\* not keep the parts after it from being read.
FailureContained ==
    stage = "done" =>
       /\ clientData # None <=>
            (login.client.payload = "object" /\ login.client.present \cap login.client.wrong = {})
       /\ microsoftAuth # None <=>
            (authToken # NoToken /\ login.microsoft.payload = "object"
               /\ login.microsoft.present \cap login.microsoft.wrong = {})
       /\ login.document = "object" /\ login.type # "wrong" /\ login.token = "right" =>
             authToken = login.microsoft
       /\ identity # None <=> \E i \in DOMAIN certificateChain : Whole(certificateChain[i])

\* A struct is set whole, from one token, or not at all, and what one part throws
\* keeps no other part from being read.
LoginContained == NoneHalfFilled /\ FailureContained
=============================================================================
