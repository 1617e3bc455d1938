----------------------------- MODULE MCDelivery -----------------------------
EXTENDS Delivery

\* One answer with a result and one refusal of the handlers, one refusal of the
\* routing and one failure of a dependency: the others take the same paths.
MCAnswers == {200, 401}
MCRefusals == {404, 500}
=============================================================================
