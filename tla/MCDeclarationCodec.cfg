\* Three byte values, a one-byte version, two-byte words and a one-byte
\* length: every payload of up to 7 bytes (the 6-byte header and one more
\* byte, a one-byte Timestamp or one unread byte) is decoded.
CONSTANTS
    Base = 3
    VersionBytes = 1
    WordBytes = 2
    LenBytes = 1
    MaxPayload = 7
SPECIFICATION Spec
INVARIANT Canonical
