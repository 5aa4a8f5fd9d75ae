----------------------------- MODULE HttpErrors -----------------------------
(***************************************************************************)
(* The status codes a handler answers with.  handler/errors.go maps the    *)
(* sentinel errors of package domain to a status; errors.Is sees through   *)
(* %w, so a wrapped sentinel keeps its status, and every other error is    *)
(* answered 500.                                                           *)
(***************************************************************************)
EXTENDS Naturals

OK == 200
Created == 201
NoContent == 204
BadRequest == 400
InternalError == 500

StatusOf ==
  [ErrNotFound           |-> 404,
   ErrAlreadyExists      |-> 409,
   ErrInvalidCredentials |-> 401,
   ErrTokenInvalid       |-> 401,
   ErrForbidden          |-> 403,
   ErrValidation         |-> 400]

writeDomainError(err) ==
  IF err \in DOMAIN StatusOf THEN StatusOf[err] ELSE InternalError
=============================================================================
