---------------------------- MODULE PayloadCodec ----------------------------
(***************************************************************************)
(* The EncryptedPayloadCodec of src/control_plane/data_converter.py, which *)
(* every client and worker applies to what it exchanges with Temporal.     *)
(* Ciphertext is a record only the key it names can open; Fernet detects   *)
(* any other key.                                                          *)
(***************************************************************************)
EncryptedEncoding == "binary/aegis-encrypted"

PlainEncoding == "json/plain"

\* A payload as the JSON converter leaves it.
Plain(value) == [encoding |-> PlainEncoding, data |-> value]

Encode(key, payload) ==
    IF payload.encoding = EncryptedEncoding THEN payload
    ELSE [encoding |-> EncryptedEncoding,
          original_encoding |-> payload.encoding,
          data |-> [key |-> key, token |-> payload.data]]

\* decode raises DataConverterError unless this holds.
Decodable(key, payload) ==
    payload.encoding = EncryptedEncoding => payload.data.key = key

Decode(key, payload) ==
    IF payload.encoding # EncryptedEncoding THEN payload
    ELSE [encoding |-> payload.original_encoding, data |-> payload.data.token]
=============================================================================
