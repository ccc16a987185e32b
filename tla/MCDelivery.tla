----------------------------- MODULE MCDelivery -----------------------------
\* Small instances of Delivery.
EXTENDS Delivery

CONSTANTS a1, a2, m1, m2

OneAction == {a1}
TwoActions == {a1, a2}
TwoMembers == {m1, m2}
OneMember == {m1}
WhatsAppOnly == {{"whatsapp"}}
\* Both channels, or e-mail without credentials.
AllDeployments == {Channels, {"whatsapp"}}
=============================================================================
